---- MODULE Spec2Model ----
(***************************************************************************)
(* Meal-safety decision engine of DiaLog (backend/improved_model_system.py *)
(* and the /predict endpoint of backend/main.py).                          *)
(*                                                                         *)
(* Numbers.  The code computes with floats.  The model computes with exact *)
(* rationals: every portion feature of one call is an integer numerator    *)
(* over the call's common denominator  den = 100 * serving_size_g, and a   *)
(* threshold t of the code is compared as  10*num >= (10*t)*den.           *)
(* Confidences are in thousandths (0.95 is 950).                           *)
(***************************************************************************)
EXTENDS Integers, Sequences, FiniteSets, TLC

VARIABLES
    meal_safety_predictor,  \* main.py global: "None" or "constructed"
    food_df,                \* MealSafetyPredictor.food_df
    model,                  \* MealSafetyPredictor.model ("None" or a classifier)
    scaler,                 \* MealSafetyPredictor.scaler
    feature_names,          \* MealSafetyPredictor.feature_names
    pc,                     \* position of each /predict call
    request,                \* the MealRequest of each call
    portion_size_g,         \* local of the endpoint
    portion_features,       \* local of predict_meal_safety
    risk_level,             \* local of apply_hard_guardrails / guardrail_risk
    reasons,                \* local of apply_hard_guardrails / guardrail_reasons
    model_prediction,       \* local of predict_meal_safety
    model_confidence,       \* local of predict_meal_safety
    model_calls,            \* number of classifier queries made by the call
    result,                 \* what the call returned (or raised)
    warnings,               \* warning-level signals each call has emitted
    main_model,             \* main.py global `model`
    health,                 \* the last response of GET /health
    firestore_db,           \* main.py global: "None" or the Firestore client
    collections,            \* the Firestore collections "logs" and "logs_summary"
    log_request,            \* the MealLog of the last /log-meal-firestore call
    log_predictions,        \* the predictions that call computed, in order
    log_response,           \* what that call returned (or raised)
    portion,                \* the last call of get_appropriate_portion_size
    enhanced                \* the last call of get_enhanced_medical_guardrails

shared == <<meal_safety_predictor, food_df, model, scaler, feature_names>>
locals == <<pc, request, portion_size_g, portion_features, risk_level, reasons,
            model_prediction, model_confidence, model_calls, result, warnings>>
vars == <<meal_safety_predictor, food_df, model, scaler, feature_names,
          pc, request, portion_size_g, portion_features, risk_level, reasons,
          model_prediction, model_confidence, model_calls, result, warnings,
          main_model, health, firestore_db, collections, log_request, log_predictions,
          log_response, portion, enhanced>>
\* what the /health endpoint, the log endpoint, the portion table and the
\* category-aware guardrail own
health_vars == <<main_model, health>>
log_vars == <<firestore_db, collections, log_request, log_predictions, log_response>>
outside == <<main_model, health, firestore_db, collections, log_request, log_predictions,
             log_response, portion, enhanced>>

----------------------------------------------------------------------------
(* Bounds *)

\* largest quantity a request asks for
MaxQuantity == 4
\* smallest quantity a request asks for (the endpoint accepts any float)
MinQuantity == 0 - 1
\* largest quantity in the two-call specification
MaxPairQuantity == 6
\* the largest number of 50 g slices asked of the one-dish datasets
MaxGridQuantity == 10
\* the largest number of 50 g slices asked of the two-dish datasets
MaxMonoQuantity == 8
\* the largest number of cups asked of a dish and its twin
MaxTwinQuantity == 3
\* the largest number of 50 g slices judged by the category-aware guardrail
MaxEnhancedQuantity == 12
\* the largest amount asked of get_appropriate_portion_size
MaxAmount == 4
\* the most meals one log lists, and the most documents kept in a collection
MaxMeals == 2
MaxLogs == 2

Quantities == MinQuantity..MaxQuantity
PairQuantities == 1..MaxPairQuantity
GridQuantities == 1..MaxGridQuantity
MonoQuantities == 1..MaxMonoQuantity
TwinQuantities == 1..MaxTwinQuantity
EnhancedQuantities == 1..MaxEnhancedQuantity

----------------------------------------------------------------------------
(* RiskLevel and its severity order *)

RiskLevel == {"safe", "caution", "unsafe"}

\* severity of a verdict; "None" is the null verdict
Sev(r) == CASE r = "unsafe" -> 3
            [] r = "caution" -> 2
            [] r = "safe" -> 1
            [] OTHER -> 0

----------------------------------------------------------------------------
(* The reference food table (rows of Food_Master_Dataset_.csv) *)

Food(serving, carbs, sugar, cal, protein, fiber, gi, gl, avoid) ==
    [serving_size_g |-> serving, carbs_g |-> carbs, sugar_g |-> sugar,
     calories_kcal |-> cal, protein_g |-> protein, fiber_g |-> fiber,
     glycemic_index |-> gi, glycemic_load |-> gl, avoid_for_diabetic |-> avoid]

FoodMaster ==
    [d \in {"Plain cream cake", "Mixed dal", "Hot tea (Garam Chai)", "White rice",
            "Sugar free biscuit", "Paneer butter masala", "Gulab jamun with khoya",
            "Fruit custard"} |->
        CASE d = "Plain cream cake"       -> Food(100, 40, 12, 350, 4, 1, 60, 24, "Yes")
          [] d = "Mixed dal"              -> Food(100, 10, 1, 110, 8, 4, 35, 4, "No")
          [] d = "Hot tea (Garam Chai)"   -> Food(200, 6, 5, 40, 1, 0, 50, 3, "No")
          [] d = "White rice"             -> Food(100, 28, 0, 130, 3, 0, 73, 20, "No")
          [] d = "Sugar free biscuit"     -> Food(50, 4, 2, 60, 1, 1, 50, 2, " yes ")
          [] d = "Paneer butter masala"   -> Food(100, 6, 3, 240, 12, 1, 30, 2, "No")
          [] d = "Gulab jamun with khoya" -> Food(50, 30, 20, 150, 2, 0, 70, 21, "YES")
          [] d = "Fruit custard"          -> Food(100, 10, 11, 120, 3, 1, 50, 5, "yes")]

\* a table that failed to load (food_df is None)
NoRows == [d \in {} |-> 0]

\* str(x).strip().lower() on the spellings of the avoid column
StripLower(s) == CASE s \in {"Yes", "YES", "yes", " yes "} -> "yes"
                   [] s \in {"No", "NO", "no"} -> "no"
                   [] OTHER -> s

\* a dish name, a keyword or a unit as the sequence of its characters
Chars(s) ==
    CASE s = "Plain cream cake" ->
           <<"P", "l", "a", "i", "n", " ", "c", "r", "e", "a", "m", " ", "c", "a", "k",
           "e">>
      [] s = "Mixed dal" -> <<"M", "i", "x", "e", "d", " ", "d", "a", "l">>
      [] s = "Hot tea (Garam Chai)" ->
           <<"H", "o", "t", " ", "t", "e", "a", " ", "(", "G", "a", "r", "a", "m", " ",
           "C", "h", "a", "i", ")">>
      [] s = "White rice" -> <<"W", "h", "i", "t", "e", " ", "r", "i", "c", "e">>
      [] s = "Sugar free biscuit" ->
           <<"S", "u", "g", "a", "r", " ", "f", "r", "e", "e", " ", "b", "i", "s", "c",
           "u", "i", "t">>
      [] s = "Paneer butter masala" ->
           <<"P", "a", "n", "e", "e", "r", " ", "b", "u", "t", "t", "e", "r", " ", "m",
           "a", "s", "a", "l", "a">>
      [] s = "Gulab jamun with khoya" ->
           <<"G", "u", "l", "a", "b", " ", "j", "a", "m", "u", "n", " ", "w", "i", "t",
           "h", " ", "k", "h", "o", "y", "a">>
      [] s = "Fruit custard" ->
           <<"F", "r", "u", "i", "t", " ", "c", "u", "s", "t", "a", "r", "d">>
      [] s = "plain cream cake" ->
           <<"p", "l", "a", "i", "n", " ", "c", "r", "e", "a", "m", " ", "c", "a", "k",
           "e">>
      [] s = "Palak paneer" ->
           <<"P", "a", "l", "a", "k", " ", "p", "a", "n", "e", "e", "r">>
      [] s = "Plain roti" -> <<"P", "l", "a", "i", "n", " ", "r", "o", "t", "i">>
      [] s = "Vegetable samosa" ->
           <<"V", "e", "g", "e", "t", "a", "b", "l", "e", " ", "s", "a", "m", "o", "s",
           "a">>
      [] s = "Vegetable fried rice" ->
           <<"V", "e", "g", "e", "t", "a", "b", "l", "e", " ", "f", "r", "i", "e", "d",
           " ", "r", "i", "c", "e">>
      [] s = "Boiled egg" -> <<"B", "o", "i", "l", "e", "d", " ", "e", "g", "g">>
      [] s = "Carrot halwa" ->
           <<"C", "a", "r", "r", "o", "t", " ", "h", "a", "l", "w", "a">>
      [] s = "Moong dal halwa" ->
           <<"M", "o", "o", "n", "g", " ", "d", "a", "l", " ", "h", "a", "l", "w", "a">>
      [] s = "Tomato rice" -> <<"T", "o", "m", "a", "t", "o", " ", "r", "i", "c", "e">>
      [] s = "cake" -> <<"c", "a", "k", "e">>
      [] s = "ice cream" -> <<"i", "c", "e", " ", "c", "r", "e", "a", "m">>
      [] s = "jamun" -> <<"j", "a", "m", "u", "n">>
      [] s = "sweet" -> <<"s", "w", "e", "e", "t">>
      [] s = "chocolate" -> <<"c", "h", "o", "c", "o", "l", "a", "t", "e">>
      [] s = "caramel" -> <<"c", "a", "r", "a", "m", "e", "l">>
      [] s = "kheer" -> <<"k", "h", "e", "e", "r">>
      [] s = "halwa" -> <<"h", "a", "l", "w", "a">>
      [] s = "laddu" -> <<"l", "a", "d", "d", "u">>
      [] s = "barfi" -> <<"b", "a", "r", "f", "i">>
      [] s = "rasgulla" -> <<"r", "a", "s", "g", "u", "l", "l", "a">>
      [] s = "kulfi" -> <<"k", "u", "l", "f", "i">>
      [] s = "pastry" -> <<"p", "a", "s", "t", "r", "y">>
      [] s = "cookie" -> <<"c", "o", "o", "k", "i", "e">>
      [] s = "biscuit" -> <<"b", "i", "s", "c", "u", "i", "t">>
      [] s = "mithai" -> <<"m", "i", "t", "h", "a", "i">>
      [] s = "gulab" -> <<"g", "u", "l", "a", "b">>
      [] s = "jalebi" -> <<"j", "a", "l", "e", "b", "i">>
      [] s = "rasmalai" -> <<"r", "a", "s", "m", "a", "l", "a", "i">>
      [] s = "payasam" -> <<"p", "a", "y", "a", "s", "a", "m">>
      [] s = "pudding" -> <<"p", "u", "d", "d", "i", "n", "g">>
      [] s = "dessert" -> <<"d", "e", "s", "s", "e", "r", "t">>
      [] s = "candy" -> <<"c", "a", "n", "d", "y">>
      [] s = "toffee" -> <<"t", "o", "f", "f", "e", "e">>
      [] s = "vegetables" -> <<"v", "e", "g", "e", "t", "a", "b", "l", "e", "s">>
      [] s = "cabbage" -> <<"c", "a", "b", "b", "a", "g", "e">>
      [] s = "cauliflower" -> <<"c", "a", "u", "l", "i", "f", "l", "o", "w", "e", "r">>
      [] s = "spinach" -> <<"s", "p", "i", "n", "a", "c", "h">>
      [] s = "broccoli" -> <<"b", "r", "o", "c", "c", "o", "l", "i">>
      [] s = "beans" -> <<"b", "e", "a", "n", "s">>
      [] s = "carrot" -> <<"c", "a", "r", "r", "o", "t">>
      [] s = "beetroot" -> <<"b", "e", "e", "t", "r", "o", "o", "t">>
      [] s = "tomato" -> <<"t", "o", "m", "a", "t", "o">>
      [] s = "cucumber" -> <<"c", "u", "c", "u", "m", "b", "e", "r">>
      [] s = "onion" -> <<"o", "n", "i", "o", "n">>
      [] s = "capsicum" -> <<"c", "a", "p", "s", "i", "c", "u", "m">>
      [] s = "bell pepper" -> <<"b", "e", "l", "l", " ", "p", "e", "p", "p", "e", "r">>
      [] s = "leafy" -> <<"l", "e", "a", "f", "y">>
      [] s = "greens" -> <<"g", "r", "e", "e", "n", "s">>
      [] s = "bhindi" -> <<"b", "h", "i", "n", "d", "i">>
      [] s = "okra" -> <<"o", "k", "r", "a">>
      [] s = "brinjal" -> <<"b", "r", "i", "n", "j", "a", "l">>
      [] s = "eggplant" -> <<"e", "g", "g", "p", "l", "a", "n", "t">>
      [] s = "gourd" -> <<"g", "o", "u", "r", "d">>
      [] s = "pumpkin" -> <<"p", "u", "m", "p", "k", "i", "n">>
      [] s = "radish" -> <<"r", "a", "d", "i", "s", "h">>
      [] s = "palak" -> <<"p", "a", "l", "a", "k">>
      [] s = "methi" -> <<"m", "e", "t", "h", "i">>
      [] s = "curry" -> <<"c", "u", "r", "r", "y">>
      [] s = "sabzi" -> <<"s", "a", "b", "z", "i">>
      [] s = "subji" -> <<"s", "u", "b", "j", "i">>
      [] s = "fry" -> <<"f", "r", "y">>
      [] s = "stir" -> <<"s", "t", "i", "r">>
      [] s = "dal" -> <<"d", "a", "l">>
      [] s = "moong" -> <<"m", "o", "o", "n", "g">>
      [] s = "masoor" -> <<"m", "a", "s", "o", "o", "r">>
      [] s = "arhar" -> <<"a", "r", "h", "a", "r">>
      [] s = "toor" -> <<"t", "o", "o", "r">>
      [] s = "chana" -> <<"c", "h", "a", "n", "a">>
      [] s = "urad" -> <<"u", "r", "a", "d">>
      [] s = "lentil" -> <<"l", "e", "n", "t", "i", "l">>
      [] s = "pulse" -> <<"p", "u", "l", "s", "e">>
      [] s = "gram" -> <<"g", "r", "a", "m">>
      [] s = "bengal" -> <<"b", "e", "n", "g", "a", "l">>
      [] s = "rice" -> <<"r", "i", "c", "e">>
      [] s = "biryani" -> <<"b", "i", "r", "y", "a", "n", "i">>
      [] s = "pulao" -> <<"p", "u", "l", "a", "o">>
      [] s = "khichdi" -> <<"k", "h", "i", "c", "h", "d", "i">>
      [] s = "poha" -> <<"p", "o", "h", "a">>
      [] s = "upma" -> <<"u", "p", "m", "a">>
      [] s = "oats" -> <<"o", "a", "t", "s">>
      [] s = "quinoa" -> <<"q", "u", "i", "n", "o", "a">>
      [] s = "barley" -> <<"b", "a", "r", "l", "e", "y">>
      [] s = "wheat" -> <<"w", "h", "e", "a", "t">>
      [] s = "grain" -> <<"g", "r", "a", "i", "n">>
      [] s = "roti" -> <<"r", "o", "t", "i">>
      [] s = "chapati" -> <<"c", "h", "a", "p", "a", "t", "i">>
      [] s = "naan" -> <<"n", "a", "a", "n">>
      [] s = "paratha" -> <<"p", "a", "r", "a", "t", "h", "a">>
      [] s = "bread" -> <<"b", "r", "e", "a", "d">>
      [] s = "puri" -> <<"p", "u", "r", "i">>
      [] s = "kulcha" -> <<"k", "u", "l", "c", "h", "a">>
      [] s = "bhatura" -> <<"b", "h", "a", "t", "u", "r", "a">>
      [] s = "dosa" -> <<"d", "o", "s", "a">>
      [] s = "uttapam" -> <<"u", "t", "t", "a", "p", "a", "m">>
      [] s = "idli" -> <<"i", "d", "l", "i">>
      [] s = "milk" -> <<"m", "i", "l", "k">>
      [] s = "yogurt" -> <<"y", "o", "g", "u", "r", "t">>
      [] s = "curd" -> <<"c", "u", "r", "d">>
      [] s = "lassi" -> <<"l", "a", "s", "s", "i">>
      [] s = "buttermilk" -> <<"b", "u", "t", "t", "e", "r", "m", "i", "l", "k">>
      [] s = "cheese" -> <<"c", "h", "e", "e", "s", "e">>
      [] s = "paneer" -> <<"p", "a", "n", "e", "e", "r">>
      [] s = "ghee" -> <<"g", "h", "e", "e">>
      [] s = "butter" -> <<"b", "u", "t", "t", "e", "r">>
      [] s = "cream" -> <<"c", "r", "e", "a", "m">>
      [] s = "dairy" -> <<"d", "a", "i", "r", "y">>
      [] s = "apple" -> <<"a", "p", "p", "l", "e">>
      [] s = "banana" -> <<"b", "a", "n", "a", "n", "a">>
      [] s = "orange" -> <<"o", "r", "a", "n", "g", "e">>
      [] s = "mango" -> <<"m", "a", "n", "g", "o">>
      [] s = "grape" -> <<"g", "r", "a", "p", "e">>
      [] s = "papaya" -> <<"p", "a", "p", "a", "y", "a">>
      [] s = "pineapple" -> <<"p", "i", "n", "e", "a", "p", "p", "l", "e">>
      [] s = "watermelon" -> <<"w", "a", "t", "e", "r", "m", "e", "l", "o", "n">>
      [] s = "melon" -> <<"m", "e", "l", "o", "n">>
      [] s = "berry" -> <<"b", "e", "r", "r", "y">>
      [] s = "fruit" -> <<"f", "r", "u", "i", "t">>
      [] s = "juice" -> <<"j", "u", "i", "c", "e">>
      [] s = "smoothie" -> <<"s", "m", "o", "o", "t", "h", "i", "e">>
      [] s = "samosa" -> <<"s", "a", "m", "o", "s", "a">>
      [] s = "pakora" -> <<"p", "a", "k", "o", "r", "a">>
      [] s = "bhaji" -> <<"b", "h", "a", "j", "i">>
      [] s = "vada" -> <<"v", "a", "d", "a">>
      [] s = "kachori" -> <<"k", "a", "c", "h", "o", "r", "i">>
      [] s = "chaat" -> <<"c", "h", "a", "a", "t">>
      [] s = "namkeen" -> <<"n", "a", "m", "k", "e", "e", "n">>
      [] s = "mixture" -> <<"m", "i", "x", "t", "u", "r", "e">>
      [] s = "chips" -> <<"c", "h", "i", "p", "s">>
      [] s = "crackers" -> <<"c", "r", "a", "c", "k", "e", "r", "s">>
      [] s = "fried" -> <<"f", "r", "i", "e", "d">>
      [] s = "deep fried" -> <<"d", "e", "e", "p", " ", "f", "r", "i", "e", "d">>
      [] s = "snack" -> <<"s", "n", "a", "c", "k">>
      [] s = "tea" -> <<"t", "e", "a">>
      [] s = "coffee" -> <<"c", "o", "f", "f", "e", "e">>
      [] s = "drink" -> <<"d", "r", "i", "n", "k">>
      [] s = "beverage" -> <<"b", "e", "v", "e", "r", "a", "g", "e">>
      [] s = "shake" -> <<"s", "h", "a", "k", "e">>
      [] s = "cola" -> <<"c", "o", "l", "a">>
      [] s = "soda" -> <<"s", "o", "d", "a">>
      [] s = "water" -> <<"w", "a", "t", "e", "r">>
      [] s = "soup" -> <<"s", "o", "u", "p">>
      [] s = "broth" -> <<"b", "r", "o", "t", "h">>
      [] s = "cup" -> <<"c", "u", "p">>
      [] s = "cups" -> <<"c", "u", "p", "s">>
      [] s = "Cups" -> <<"C", "u", "p", "s">>
      [] s = "bowl" -> <<"b", "o", "w", "l">>
      [] s = "bowls" -> <<"b", "o", "w", "l", "s">>
      [] s = "katori" -> <<"k", "a", "t", "o", "r", "i">>
      [] s = "katoris" -> <<"k", "a", "t", "o", "r", "i", "s">>
      [] s = "plate" -> <<"p", "l", "a", "t", "e">>
      [] s = "plates" -> <<"p", "l", "a", "t", "e", "s">>
      [] s = "glass" -> <<"g", "l", "a", "s", "s">>
      [] s = "glasses" -> <<"g", "l", "a", "s", "s", "e", "s">>
      [] s = "piece" -> <<"p", "i", "e", "c", "e">>
      [] s = "pieces" -> <<"p", "i", "e", "c", "e", "s">>
      [] s = "small_cup" -> <<"s", "m", "a", "l", "l", "_", "c", "u", "p">>
      [] s = "small_plate" -> <<"s", "m", "a", "l", "l", "_", "p", "l", "a", "t", "e">>
      [] s = "tbsp" -> <<"t", "b", "s", "p">>
      [] s = "tsp" -> <<"t", "s", "p">>
      [] s = "slice" -> <<"s", "l", "i", "c", "e">>
      [] s = "grams" -> <<"g", "r", "a", "m", "s">>
      [] s = "tokri" -> <<"t", "o", "k", "r", "i">>
      [] s = "vegetable" -> <<"v", "e", "g", "e", "t", "a", "b", "l", "e">>
      [] s = "stock" -> <<"s", "t", "o", "c", "k">>
      [] s = "chickpea" -> <<"c", "h", "i", "c", "k", "p", "e", "a">>
      [] s = "split pea" -> <<"s", "p", "l", "i", "t", " ", "p", "e", "a">>
      [] s = "daliya" -> <<"d", "a", "l", "i", "y", "a">>
      [] s = "porridge" -> <<"p", "o", "r", "r", "i", "d", "g", "e">>
      [] s = "flakes" -> <<"f", "l", "a", "k", "e", "s">>
      [] s = "murmura" -> <<"m", "u", "r", "m", "u", "r", "a">>
      [] OTHER -> <<>>

UpperCase == <<"A", "B", "C", "D", "E", "F", "G", "H", "I", "J", "K", "L", "M",
               "N", "O", "P", "Q", "R", "S", "T", "U", "V", "W", "X", "Y", "Z">>
LowerCase == <<"a", "b", "c", "d", "e", "f", "g", "h", "i", "j", "k", "l", "m",
               "n", "o", "p", "q", "r", "s", "t", "u", "v", "w", "x", "y", "z">>

\* str.lower on one character
LowerChar(ch) ==
    IF \E i \in 1..26 : UpperCase[i] = ch
    THEN LowerCase[CHOOSE i \in 1..26 : UpperCase[i] = ch]
    ELSE ch

\* str.lower, on the characters of s
lower(s) == [i \in 1..Len(Chars(s)) |-> LowerChar(Chars(s)[i])]

\* Python's `needle in hay` on character sequences
Contains(hay, needle) ==
    \E i \in 0..(Len(hay) - Len(needle)) : SubSeq(hay, i + 1, i + Len(needle)) = needle

Max(a, b) == IF a >= b THEN a ELSE b

----------------------------------------------------------------------------
(* compute_portion_features: numerators over den = 100 * serving_size_g *)

\* mutant: GL_portion is the stored glycemic_load scaled by the multiplier
compute_portion_features_StoredGL(food_row, grams) ==
    [den                     |-> 100 * food_row.serving_size_g,
     portion_multiplier      |-> 100 * grams,
     carbs_effective_g       |-> 100 * food_row.carbs_g * grams,
     sugar_effective_g       |-> 100 * food_row.sugar_g * grams,
     calories_effective_kcal |-> 100 * food_row.calories_kcal * grams,
     GL_portion              |-> 100 * food_row.glycemic_load * grams,
     fiber_to_carb_ratio     |-> <<food_row.fiber_g, Max(1, food_row.carbs_g)>>,
     protein_to_carb_ratio   |-> <<food_row.protein_g, Max(1, food_row.carbs_g)>>,
     energy_density          |-> <<food_row.calories_kcal, food_row.serving_size_g>>,
     glycemic_index          |-> food_row.glycemic_index,
     glycemic_load           |-> food_row.glycemic_load]

compute_portion_features(food_row, grams) ==
    [den                     |-> 100 * food_row.serving_size_g,
     portion_multiplier      |-> 100 * grams,
     carbs_effective_g       |-> 100 * food_row.carbs_g * grams,
     sugar_effective_g       |-> 100 * food_row.sugar_g * grams,
     calories_effective_kcal |-> 100 * food_row.calories_kcal * grams,
     GL_portion              |-> food_row.carbs_g * grams * food_row.glycemic_index,
     fiber_to_carb_ratio     |-> <<food_row.fiber_g, Max(1, food_row.carbs_g)>>,
     protein_to_carb_ratio   |-> <<food_row.protein_g, Max(1, food_row.carbs_g)>>,
     energy_density          |-> <<food_row.calories_kcal, food_row.serving_size_g>>,
     glycemic_index          |-> food_row.glycemic_index,
     glycemic_load           |-> food_row.glycemic_load]

\* portion_size_g / serving_size_g raises ZeroDivisionError for a row whose
\* serving_size_g is 0 (float(0) is kept, the default 100 is for a missing key)
DivisionByZero(food_row) == food_row.serving_size_g = 0

\* the locals of a call that has not computed its features
NoFeatures == compute_portion_features(Food(1, 0, 0, 0, 0, 0, 0, 0, ""), 0)

\* x >= t and x <= t for a feature numerator x over f.den, t given in tenths
GE(f, x, t10) == 10 * x >= t10 * f.den
LE(f, x, t10) == 10 * x <= t10 * f.den

----------------------------------------------------------------------------
(* apply_hard_guardrails, one operator per rule.  A rule takes the running *)
(* verdict and reasons and returns them as the rule leaves them.           *)

Verdict(r, rs) == [risk_level |-> r, reasons |-> rs]

avoid_for_diabetic(food_row) == StripLower(food_row.avoid_for_diabetic) = "yes"

\* mutant: the moderate band turns UNSAFE at 3.0 servings, not at 4.0
Rule1_OldThreshold(food_row, f, v) ==
    IF ~avoid_for_diabetic(food_row) THEN v
    ELSE IF LE(f, f.GL_portion, 80) /\ LE(f, f.sugar_effective_g, 100)
            /\ LE(f, f.portion_multiplier, 30) THEN v
    ELSE IF GE(f, f.sugar_effective_g, 250) /\ GE(f, f.GL_portion, 150) THEN
        IF GE(f, f.portion_multiplier, 10)
        THEN Verdict("unsafe", Append(v.reasons, "avoid_high_risk"))
        ELSE Verdict("caution", Append(v.reasons, "avoid_high_risk_small"))
    ELSE IF LE(f, f.GL_portion, 150) /\ LE(f, f.sugar_effective_g, 200) THEN
        IF GE(f, f.portion_multiplier, 30)
        THEN Verdict("unsafe", Append(v.reasons, "avoid_excessive_portion"))
        ELSE v
    ELSE
        IF GE(f, f.portion_multiplier, 20)
        THEN Verdict("unsafe", Append(v.reasons, "avoid_moderate_large_portion"))
        ELSE IF GE(f, f.portion_multiplier, 15)
        THEN Verdict("caution", Append(v.reasons, "avoid_elevated_portion"))
        ELSE v

\* Rule 1: smart avoid-for-diabetic rule
Rule1(food_row, f, v) ==
    IF ~avoid_for_diabetic(food_row) THEN v
    ELSE IF LE(f, f.GL_portion, 80) /\ LE(f, f.sugar_effective_g, 100)
            /\ LE(f, f.portion_multiplier, 30) THEN v
    ELSE IF GE(f, f.sugar_effective_g, 250) /\ GE(f, f.GL_portion, 150) THEN
        IF GE(f, f.portion_multiplier, 10)
        THEN Verdict("unsafe", Append(v.reasons, "avoid_high_risk"))
        ELSE Verdict("caution", Append(v.reasons, "avoid_high_risk_small"))
    ELSE IF LE(f, f.GL_portion, 150) /\ LE(f, f.sugar_effective_g, 200) THEN
        IF GE(f, f.portion_multiplier, 40)
        THEN Verdict("unsafe", Append(v.reasons, "avoid_excessive_portion"))
        ELSE IF GE(f, f.portion_multiplier, 30)
        THEN Verdict("caution", Append(v.reasons, "avoid_large_portion"))
        ELSE v
    ELSE
        IF GE(f, f.portion_multiplier, 20)
        THEN Verdict("unsafe", Append(v.reasons, "avoid_moderate_large_portion"))
        ELSE IF GE(f, f.portion_multiplier, 15)
        THEN Verdict("caution", Append(v.reasons, "avoid_elevated_portion"))
        ELSE v

\* mutant: no unconditional tier at 5.0, the very-large tier runs on
Rule2_NoExtremeTier(food_row, f, v) ==
    IF GE(f, f.portion_multiplier, 30) THEN
        IF GE(f, f.GL_portion, 150) \/ GE(f, f.sugar_effective_g, 200)
        THEN Verdict("unsafe", Append(v.reasons, "very_large_portion_high_gl_sugar"))
        ELSE IF v.risk_level # "unsafe"
        THEN Verdict("caution", Append(v.reasons, "very_large_portion"))
        ELSE v
    ELSE IF GE(f, f.portion_multiplier, 20) THEN
        IF v.risk_level # "unsafe"
           /\ (GE(f, f.GL_portion, 120) \/ GE(f, f.sugar_effective_g, 150))
        THEN Verdict("caution", Append(v.reasons, "large_portion_moderate_gl_sugar"))
        ELSE v
    ELSE v

\* mutant: the very-large tier starts above 3.0 instead of at 3.0
Rule2_Strict(food_row, f, v) ==
    IF GE(f, f.portion_multiplier, 50)
    THEN Verdict("unsafe", Append(v.reasons, "extreme_portion"))
    ELSE IF ~LE(f, f.portion_multiplier, 30) THEN
        IF GE(f, f.GL_portion, 150) \/ GE(f, f.sugar_effective_g, 200)
        THEN Verdict("unsafe", Append(v.reasons, "very_large_portion_high_gl_sugar"))
        ELSE IF v.risk_level # "unsafe"
        THEN Verdict("caution", Append(v.reasons, "very_large_portion"))
        ELSE v
    ELSE IF GE(f, f.portion_multiplier, 20) THEN
        IF v.risk_level # "unsafe"
           /\ (GE(f, f.GL_portion, 120) \/ GE(f, f.sugar_effective_g, 150))
        THEN Verdict("caution", Append(v.reasons, "large_portion_moderate_gl_sugar"))
        ELSE v
    ELSE v

\* mutant: the very-large tier sets CAUTION without looking at the verdict
Rule2_Downgrade(food_row, f, v) ==
    IF GE(f, f.portion_multiplier, 50)
    THEN Verdict("unsafe", Append(v.reasons, "extreme_portion"))
    ELSE IF GE(f, f.portion_multiplier, 30) THEN
        IF GE(f, f.GL_portion, 150) \/ GE(f, f.sugar_effective_g, 200)
        THEN Verdict("unsafe", Append(v.reasons, "very_large_portion_high_gl_sugar"))
        ELSE Verdict("caution", Append(v.reasons, "very_large_portion"))
    ELSE IF GE(f, f.portion_multiplier, 20) THEN
        IF v.risk_level # "unsafe"
           /\ (GE(f, f.GL_portion, 120) \/ GE(f, f.sugar_effective_g, 150))
        THEN Verdict("caution", Append(v.reasons, "large_portion_moderate_gl_sugar"))
        ELSE v
    ELSE v

\* Rule 2: extreme portion sanity check
Rule2(food_row, f, v) ==
    IF GE(f, f.portion_multiplier, 50)
    THEN Verdict("unsafe", Append(v.reasons, "extreme_portion"))
    ELSE IF GE(f, f.portion_multiplier, 30) THEN
        IF GE(f, f.GL_portion, 150) \/ GE(f, f.sugar_effective_g, 200)
        THEN Verdict("unsafe", Append(v.reasons, "very_large_portion_high_gl_sugar"))
        ELSE IF v.risk_level # "unsafe"
        THEN Verdict("caution", Append(v.reasons, "very_large_portion"))
        ELSE v
    ELSE IF GE(f, f.portion_multiplier, 20) THEN
        IF v.risk_level # "unsafe"
           /\ (GE(f, f.GL_portion, 120) \/ GE(f, f.sugar_effective_g, 150))
        THEN Verdict("caution", Append(v.reasons, "large_portion_moderate_gl_sugar"))
        ELSE v
    ELSE v

\* mutant: the 30-39 g band sets CAUTION without looking at the verdict
Rule3_Downgrade(food_row, f, v) ==
    IF GE(f, f.sugar_effective_g, 400)
    THEN Verdict("unsafe", Append(v.reasons, "very_high_sugar_load"))
    ELSE IF GE(f, f.sugar_effective_g, 300)
    THEN Verdict("caution", Append(v.reasons, "high_sugar_load"))
    ELSE v

\* Rule 3: sugar load per meal
Rule3(food_row, f, v) ==
    IF GE(f, f.sugar_effective_g, 400)
    THEN Verdict("unsafe", Append(v.reasons, "very_high_sugar_load"))
    ELSE IF GE(f, f.sugar_effective_g, 300)
    THEN Verdict(IF v.risk_level # "unsafe" THEN "caution" ELSE v.risk_level,
                 Append(v.reasons, "high_sugar_load"))
    ELSE v

\* mutant: the 15-24 band sets CAUTION without looking at the verdict
Rule4_Downgrade(food_row, f, v) ==
    IF GE(f, f.GL_portion, 250)
    THEN Verdict("unsafe", Append(v.reasons, "very_high_glycemic_load"))
    ELSE IF GE(f, f.GL_portion, 150)
    THEN Verdict("caution", Append(v.reasons, "high_glycemic_load"))
    ELSE v

\* Rule 4: glycemic load per portion
Rule4(food_row, f, v) ==
    IF GE(f, f.GL_portion, 250)
    THEN Verdict("unsafe", Append(v.reasons, "very_high_glycemic_load"))
    ELSE IF GE(f, f.GL_portion, 150)
    THEN Verdict(IF v.risk_level # "unsafe" THEN "caution" ELSE v.risk_level,
                 Append(v.reasons, "high_glycemic_load"))
    ELSE v

\* mutant: the calorie caution band starts at 750 kcal
Rule5_LateCaution(food_row, f, v) ==
    IF GE(f, f.calories_effective_kcal, 8000)
    THEN Verdict("unsafe", Append(v.reasons, "very_high_calorie_meal"))
    ELSE IF GE(f, f.calories_effective_kcal, 7500)
    THEN Verdict(IF v.risk_level # "unsafe" THEN "caution" ELSE v.risk_level,
                 Append(v.reasons, "high_calorie_meal"))
    ELSE v

\* mutant: the 700-799 kcal band sets CAUTION without looking at the verdict
Rule5_Downgrade(food_row, f, v) ==
    IF GE(f, f.calories_effective_kcal, 8000)
    THEN Verdict("unsafe", Append(v.reasons, "very_high_calorie_meal"))
    ELSE IF GE(f, f.calories_effective_kcal, 7000)
    THEN Verdict("caution", Append(v.reasons, "high_calorie_meal"))
    ELSE v

\* Rule 5: calorie check
Rule5(food_row, f, v) ==
    IF GE(f, f.calories_effective_kcal, 8000)
    THEN Verdict("unsafe", Append(v.reasons, "very_high_calorie_meal"))
    ELSE IF GE(f, f.calories_effective_kcal, 7000)
    THEN Verdict(IF v.risk_level # "unsafe" THEN "caution" ELSE v.risk_level,
                 Append(v.reasons, "high_calorie_meal"))
    ELSE v

\* the rule a call is about to evaluate, by its position
RuleAt(p, food_row, f, v) ==
    CASE p = "rule1" -> Rule1(food_row, f, v)
      [] p = "rule2" -> Rule2(food_row, f, v)
      [] p = "rule3" -> Rule3(food_row, f, v)
      [] p = "rule4" -> Rule4(food_row, f, v)
      [] p = "rule5" -> Rule5(food_row, f, v)

NextPc(p) ==
    CASE p = "rule1" -> "rule2"
      [] p = "rule2" -> "rule3"
      [] p = "rule3" -> "rule4"
      [] p = "rule4" -> "rule5"
      [] p = "rule5" -> "model"

\* apply_hard_guardrails as one evaluation
apply_hard_guardrails(food_row, f) ==
    Rule5(food_row, f, Rule4(food_row, f, Rule3(food_row, f,
        Rule2(food_row, f, Rule1(food_row, f, Verdict("None", <<>>))))))

----------------------------------------------------------------------------
(* The request side: users, units, BMI *)

Users == {"u1", "u2"}

\* the user fields of a MealRequest
UserFields(u) ==
    IF u = "u1"
    THEN [age |-> 45, gender |-> "Male", weight_kg |-> 72, height_cm |-> 180,
          fasting_sugar |-> 100, post_meal_sugar |-> 140, time_of_day |-> "Lunch"]
    ELSE IF u = "log"
    THEN [age |-> 35, gender |-> "Male", weight_kg |-> 70, height_cm |-> 170,
          fasting_sugar |-> 100, post_meal_sugar |-> 140, time_of_day |-> "Lunch"]
    ELSE [age |-> 60, gender |-> "Female", weight_kg |-> 80, height_cm |-> 0,
          fasting_sugar |-> 160, post_meal_sugar |-> 210, time_of_day |-> "Dinner"]

\* calculate_bmi, in tenths, rounded to one decimal
calculate_bmi(weight_kg, height_cm) ==
    IF height_cm <= 0 \/ weight_kg <= 0 THEN 250
    ELSE (2 * weight_kg * 100000 + height_cm * height_cm) \div (2 * height_cm * height_cm)

\* unit strings a request may carry; "tokri" is in no table
Units == {"cup", "piece", "slice", "g", "tokri"}

\* portion_unit_to_grams.get(unit.lower(), 100) of the /predict endpoint
portion_unit_to_grams(unit) ==
    CASE unit = "cup" -> 200
      [] unit = "bowl" -> 250
      [] unit = "plate" -> 300
      [] unit = "piece" -> 100
      [] unit = "slice" -> 50
      [] unit = "spoon" -> 15
      [] unit = "glass" -> 250
      [] unit = "g" -> 1
      [] unit = "grams" -> 1
      [] OTHER -> 100

\* dish names a request may carry; the last one is in the table in another case
MealNames == DOMAIN FoodMaster \cup {"plain cream cake"}

NoRequest == [meal_taken |-> "", portion_size |-> 0, portion_unit |-> "", user |-> ""]

----------------------------------------------------------------------------
(* The risk classifier (external collaborator) *)

\* a rational num/den with den > 0
Q(num, den) == <<num, den>>
QGe(x, t10) == 10 * x[1] >= t10 * x[2]

\* prepare_features_for_model: the 13 features in the order of the code
prepare_features_for_model(f, user_data) ==
    << Q(user_data.age, 1),
       Q(IF user_data.gender = "Male" THEN 1 ELSE 0, 1),
       Q(user_data.bmi, 10),
       Q(user_data.fasting_sugar, 1),
       Q(CASE user_data.time_of_day = "Breakfast" -> 0
           [] user_data.time_of_day = "Lunch" -> 1
           [] user_data.time_of_day = "Dinner" -> 2
           [] user_data.time_of_day = "Snack" -> 3
           [] OTHER -> 0, 1),
       Q(f.portion_multiplier, f.den),
       Q(f.carbs_effective_g, f.den),
       Q(f.sugar_effective_g, f.den),
       Q(f.GL_portion, f.den),
       Q(f.fiber_to_carb_ratio[1], f.fiber_to_carb_ratio[2]),
       Q(f.protein_to_carb_ratio[1], f.protein_to_carb_ratio[2]),
       Q(f.energy_density[1], f.energy_density[2]),
       Q(f.glycemic_index, 1) >>

\* trained models that load_model may find on disk
Classifiers == {"always_safe", "safe_at_threshold", "always_caution",
                "likes_large_portions", "fasting_aware", "raises"}

Answer(cls, conf) == [raised |-> FALSE, pred_class |-> cls, confidence |-> conf]
Raised == [raised |-> TRUE, pred_class |-> 0, confidence |-> 0]

\* scaler.transform + model.predict + max(model.predict_proba) on a feature vector
Classify(m, x) ==
    CASE m = "always_safe"          -> Answer(1, 1000)
      [] m = "safe_at_threshold"    -> Answer(1, 900)
      [] m = "always_caution"       -> Answer(0, 800)
      [] m = "likes_large_portions" -> IF QGe(x[6], 20) THEN Answer(1, 950)
                                       ELSE Answer(0, 600)
      [] m = "fasting_aware"        -> IF QGe(x[4], 1400) THEN Answer(0, 700)
                                       ELSE Answer(1, 950)
      [] OTHER                      -> Raised

----------------------------------------------------------------------------
(* predict_meal_safety: steps 3 to 5 as functions of the call's locals *)

\* mutant: the guardrail verdict is not consulted before querying
ModelIsQueried_NoGuard(m, guardrail_risk) == m # "None"

\* Step 3 guard: the classifier is queried iff this holds
ModelIsQueried(m, guardrail_risk) == m # "None" /\ guardrail_risk # "unsafe"

\* mutant: a failed query is taken as a SAFE prediction
ModelOutcome_FailSafe(m, x) ==
    LET a == Classify(m, x) IN
    IF a.raised
    THEN [model_prediction |-> "safe", model_confidence |-> 500,
          printed |-> {"Model prediction failed"}]
    ELSE [model_prediction |-> IF a.pred_class = 1 THEN "safe" ELSE "caution",
          model_confidence |-> a.confidence, printed |-> {}]

\* Step 3: model_prediction and model_confidence after the try block
ModelOutcome(m, x) ==
    LET a == Classify(m, x) IN
    IF a.raised
    THEN [model_prediction |-> "caution", model_confidence |-> 500,
          printed |-> {"Model prediction failed"}]
    ELSE [model_prediction |-> IF a.pred_class = 1 THEN "safe" ELSE "caution",
          model_confidence |-> a.confidence, printed |-> {}]

\* mutant: the override threshold is >= 0.9 instead of > 0.9
FinalDecision_AtLeast(guardrail_risk, prediction, confidence) ==
    IF guardrail_risk = "unsafe"
    THEN [final_risk |-> "unsafe", final_confidence |-> 950]
    ELSE IF guardrail_risk = "caution" THEN
        IF prediction = "safe" /\ confidence >= 900
        THEN [final_risk |-> "safe", final_confidence |-> (confidence * 8) \div 10]
        ELSE [final_risk |-> "caution", final_confidence |-> Max(700, confidence)]
    ELSE [final_risk |-> IF prediction # "None" THEN prediction ELSE "caution",
          final_confidence |-> IF confidence > 0 THEN confidence ELSE 600]

\* mutant: without a guardrail the verdict is SAFE whatever the model said
FinalDecision_IgnoreModel(guardrail_risk, prediction, confidence) ==
    IF guardrail_risk = "unsafe"
    THEN [final_risk |-> "unsafe", final_confidence |-> 950]
    ELSE IF guardrail_risk = "caution" THEN
        IF prediction = "safe" /\ confidence > 900
        THEN [final_risk |-> "safe", final_confidence |-> (confidence * 8) \div 10]
        ELSE [final_risk |-> "caution", final_confidence |-> Max(700, confidence)]
    ELSE [final_risk |-> IF prediction # "None" THEN "safe" ELSE "caution",
          final_confidence |-> IF confidence > 0 THEN confidence ELSE 600]

\* mutant: with no guardrail and no prediction the verdict defaults to SAFE
FinalDecision_DefaultSafe(guardrail_risk, prediction, confidence) ==
    IF guardrail_risk = "unsafe"
    THEN [final_risk |-> "unsafe", final_confidence |-> 950]
    ELSE IF guardrail_risk = "caution" THEN
        IF prediction = "safe" /\ confidence > 900
        THEN [final_risk |-> "safe", final_confidence |-> (confidence * 8) \div 10]
        ELSE [final_risk |-> "caution", final_confidence |-> Max(700, confidence)]
    ELSE [final_risk |-> IF prediction # "None" THEN prediction ELSE "safe",
          final_confidence |-> IF confidence > 0 THEN confidence ELSE 600]

\* Step 4: final decision logic
FinalDecision(guardrail_risk, prediction, confidence) ==
    IF guardrail_risk = "unsafe"
    THEN [final_risk |-> "unsafe", final_confidence |-> 950]
    ELSE IF guardrail_risk = "caution" THEN
        IF prediction = "safe" /\ confidence > 900
        THEN [final_risk |-> "safe", final_confidence |-> (confidence * 8) \div 10]
        ELSE [final_risk |-> "caution", final_confidence |-> Max(700, confidence)]
    ELSE [final_risk |-> IF prediction # "None" THEN prediction ELSE "caution",
          final_confidence |-> IF confidence > 0 THEN confidence ELSE 600]

\* mutant: the classifier note is given whenever a prediction exists
generate_explanation_NoteAlways(f, guardrail_reasons, final_risk, prediction) ==
    <<IF ~LE(f, f.portion_multiplier, 15) THEN "Large portion"
      ELSE IF ~GE(f, f.portion_multiplier, 5) THEN "Small portion"
      ELSE "Normal portion">>
    \o <<"GL">>
    \o (IF ~LE(f, f.sugar_effective_g, 50) THEN <<"sugar">> ELSE <<>>)
    \o guardrail_reasons
    \o (IF prediction # "None" THEN <<"Model: " \o prediction>> ELSE <<>>)
    \o <<CASE final_risk = "unsafe" -> "marked UNSAFE"
           [] final_risk = "caution" -> "marked CAUTION"
           [] OTHER -> "marked SAFE">>

\* Step 5: generate_explanation, as the list of its parts
generate_explanation(f, guardrail_reasons, final_risk, prediction) ==
    <<IF ~LE(f, f.portion_multiplier, 15) THEN "Large portion"
      ELSE IF ~GE(f, f.portion_multiplier, 5) THEN "Small portion"
      ELSE "Normal portion">>
    \o <<"GL">>
    \o (IF ~LE(f, f.sugar_effective_g, 50) THEN <<"sugar">> ELSE <<>>)
    \o guardrail_reasons
    \o (IF prediction # "None" /\ Len(guardrail_reasons) = 0
        THEN <<"Model: " \o prediction>> ELSE <<>>)
    \o <<CASE final_risk = "unsafe" -> "marked UNSAFE"
           [] final_risk = "caution" -> "marked CAUTION"
           [] OTHER -> "marked SAFE">>

\* risk_mapping of the endpoint
risk_mapping(r) ==
    CASE r = "safe" -> <<"low", TRUE>>
      [] r = "caution" -> <<"medium", FALSE>>
      [] r = "unsafe" -> <<"high", FALSE>>
      [] OTHER -> <<"medium", FALSE>>

NoResult ==
    [status |-> 0, detail |-> "", risk_level |-> "None", confidence |-> 0,
     explanation |-> <<>>, guardrail_triggered |-> FALSE, model_prediction |-> "None",
     reasons |-> <<>>, response_risk_level |-> "", is_safe |-> FALSE, similar |-> {}]

\* the dict predict_meal_safety returns, with the endpoint's risk mapping
PredictionResult(f, guardrail_risk, guardrail_reasons, prediction, confidence) ==
    LET d == FinalDecision(guardrail_risk, prediction, confidence) IN
    [status |-> 200, detail |-> "",
     risk_level |-> d.final_risk,
     confidence |-> d.final_confidence,
     explanation |-> generate_explanation(f, guardrail_reasons, d.final_risk, prediction),
     guardrail_triggered |-> guardrail_risk # "None",
     model_prediction |-> prediction,
     reasons |-> guardrail_reasons,
     response_risk_level |-> risk_mapping(d.final_risk)[1],
     is_safe |-> risk_mapping(d.final_risk)[2],
     similar |-> {}]

\* an HTTP error response
HttpError(code, text) == [NoResult EXCEPT !.status = code, !.detail = text]

\* the "Similar" list of the not-found message: the dataset names that contain
\* the requested name, letter case aside (the list is cut at five names, more
\* than any request finds in the tables used here)
similar_foods(df, meal_name) ==
    {food \in DOMAIN df : Contains(lower(food), lower(meal_name))}

----------------------------------------------------------------------------
(* FoodCategoryManager: categories, medical portions, unit conversions *)

dessert_keywords ==
    <<"cake", "ice cream", "jamun", "sweet", "chocolate", "caramel", "kheer", "halwa",
      "laddu", "barfi", "rasgulla", "kulfi", "pastry", "cookie", "biscuit", "mithai",
      "gulab", "jalebi", "rasmalai", "payasam", "pudding", "dessert", "candy", "toffee">>

vegetable_keywords ==
    <<"vegetables", "cabbage", "cauliflower", "spinach", "broccoli", "beans", "carrot",
      "beetroot", "tomato", "cucumber", "onion", "capsicum", "bell pepper", "leafy",
      "greens", "bhindi", "okra", "brinjal", "eggplant", "gourd", "pumpkin", "radish",
      "palak", "methi", "curry", "sabzi", "subji", "fry", "stir">>

lentil_keywords ==
    <<"dal", "moong", "masoor", "arhar", "toor", "chana", "urad", "lentil", "pulse",
      "gram", "bengal">>

grain_keywords ==
    <<"rice", "biryani", "pulao", "khichdi", "poha", "upma", "oats", "quinoa", "barley",
      "wheat", "grain">>

bread_keywords ==
    <<"roti", "chapati", "naan", "paratha", "bread", "puri", "kulcha", "bhatura", "dosa",
      "uttapam", "idli">>

dairy_keywords ==
    <<"milk", "yogurt", "curd", "lassi", "buttermilk", "cheese", "paneer", "ghee",
      "butter", "cream", "dairy">>

fruit_keywords ==
    <<"apple", "banana", "orange", "mango", "grape", "papaya", "pineapple", "watermelon",
      "melon", "berry", "fruit", "juice", "smoothie">>

snack_keywords ==
    <<"samosa", "pakora", "bhaji", "vada", "kachori", "chaat", "namkeen", "mixture",
      "chips", "crackers", "fried", "deep fried", "snack">>

beverage_keywords ==
    <<"tea", "coffee", "drink", "beverage", "shake", "cola", "soda", "water", "soup",
      "broth">>

\* any(kw in name_lower for kw in keywords)
AnyKeyword(name_lower, keywords) ==
    \E i \in 1..Len(keywords) : Contains(name_lower, Chars(keywords[i]))

\* mutant: the vegetables category has no carve-out for names with 'rice'
categorize_food_NoCarveOut(food_name) ==
    LET name_lower == lower(food_name) IN
    IF AnyKeyword(name_lower, dessert_keywords) THEN "desserts"
    ELSE IF AnyKeyword(name_lower, vegetable_keywords) THEN "vegetables"
    ELSE IF AnyKeyword(name_lower, lentil_keywords) THEN "lentils"
    ELSE IF AnyKeyword(name_lower, grain_keywords) THEN "grains"
    ELSE IF AnyKeyword(name_lower, bread_keywords) THEN "bread"
    ELSE IF AnyKeyword(name_lower, dairy_keywords) THEN "dairy"
    ELSE IF AnyKeyword(name_lower, fruit_keywords) THEN "fruits"
    ELSE IF AnyKeyword(name_lower, snack_keywords) THEN "snacks"
    ELSE IF AnyKeyword(name_lower, beverage_keywords) THEN "beverages"
    ELSE "vegetables"

categorize_food(food_name) ==
    LET name_lower == lower(food_name) IN
    IF AnyKeyword(name_lower, dessert_keywords) THEN "desserts"
    ELSE IF AnyKeyword(name_lower, vegetable_keywords)
            /\ ~Contains(name_lower, Chars("rice")) THEN "vegetables"
    ELSE IF AnyKeyword(name_lower, lentil_keywords) THEN "lentils"
    ELSE IF AnyKeyword(name_lower, grain_keywords) THEN "grains"
    ELSE IF AnyKeyword(name_lower, bread_keywords) THEN "bread"
    ELSE IF AnyKeyword(name_lower, dairy_keywords) THEN "dairy"
    ELSE IF AnyKeyword(name_lower, fruit_keywords) THEN "fruits"
    ELSE IF AnyKeyword(name_lower, snack_keywords) THEN "snacks"
    ELSE IF AnyKeyword(name_lower, beverage_keywords) THEN "beverages"
    ELSE "vegetables"

Guidelines(safe, caution, unsafe) ==
    [safe_range |-> safe, caution_range |-> caution, unsafe_threshold |-> unsafe]

\* medical portion recommendations, in grams
medical_portions ==
    [vegetables |-> Guidelines(<<150, 300>>, <<300, 500>>, 600),
     lentils    |-> Guidelines(<<100, 200>>, <<200, 300>>, 400),
     grains     |-> Guidelines(<<75, 150>>, <<150, 250>>, 300),
     bread      |-> Guidelines(<<30, 90>>, <<90, 150>>, 200),
     dairy      |-> Guidelines(<<150, 250>>, <<250, 400>>, 500),
     fruits     |-> Guidelines(<<100, 150>>, <<150, 250>>, 300),
     snacks     |-> Guidelines(<<25, 50>>, <<50, 100>>, 150),
     desserts   |-> Guidelines(<<20, 40>>, <<40, 80>>, 100),
     beverages  |-> Guidelines(<<150, 250>>, <<250, 400>>, 500)]

\* the members of the ServingUnit enum, by value
ServingUnit ==
    [glass |-> "GLASS", cup |-> "CUP", small_cup |-> "SMALL_CUP", bowl |-> "BOWL",
     katori |-> "KATORI", plate |-> "PLATE", small_plate |-> "SMALL_PLATE",
     piece |-> "PIECE", slice |-> "SLICE", tbsp |-> "TABLESPOON", tsp |-> "TEASPOON",
     grams |-> "GRAMS"]

\* unit to gram conversions
unit_conversions ==
    [GLASS |-> 250, CUP |-> 200, SMALL_CUP |-> 150, BOWL |-> 180, KATORI |-> 110,
     PLATE |-> 250, SMALL_PLATE |-> 150, TABLESPOON |-> 15, TEASPOON |-> 5]

\* requested_unit.lower() in [...]
UnitIn(requested_unit, names) == \E n \in names : lower(requested_unit) = Chars(n)

\* get_appropriate_portion_size: the conversion of the requested amount to grams
requested_grams(category, requested_amount, requested_unit) ==
    IF UnitIn(requested_unit, {"cup", "cups"})
    THEN requested_amount * unit_conversions.CUP
    ELSE IF UnitIn(requested_unit, {"bowl", "bowls"})
    THEN requested_amount * unit_conversions.BOWL
    ELSE IF UnitIn(requested_unit, {"katori", "katoris"})
    THEN requested_amount * unit_conversions.KATORI
    ELSE IF UnitIn(requested_unit, {"plate", "plates"})
    THEN requested_amount * unit_conversions.PLATE
    ELSE IF UnitIn(requested_unit, {"glass", "glasses"})
    THEN requested_amount * unit_conversions.GLASS
    ELSE IF UnitIn(requested_unit, {"piece", "pieces"})
    THEN (CASE category = "bread" -> requested_amount * 30
            [] category = "desserts" -> requested_amount * 50
            [] category = "snacks" -> requested_amount * 40
            [] OTHER -> requested_amount * 50)
    ELSE requested_amount

\* get_appropriate_portion_size: grams, safety level, advice and category; the
\* function prints nothing and logs nothing
get_appropriate_portion_size(food_name, requested_amount, requested_unit) ==
    LET category == categorize_food(food_name)
        guidelines == medical_portions[category]
        grams == requested_grams(category, requested_amount, requested_unit)
        safe_max == guidelines.safe_range[2]
        caution_max == guidelines.caution_range[2]
    IN [food_name |-> food_name, requested_amount |-> requested_amount,
        requested_unit |-> requested_unit, grams |-> grams,
        safety_level |-> IF grams <= safe_max THEN "SAFE"
                         ELSE IF grams <= caution_max THEN "CAUTION" ELSE "UNSAFE",
        advice |-> IF grams <= safe_max THEN "Good portion for " \o category
                   ELSE IF grams <= caution_max
                   THEN "Moderate portion - watch total daily " \o category \o " intake"
                   ELSE "Large portion - consider reducing to " \o ToString(safe_max)
                        \o "g or less",
        category |-> category, printed |-> {}]

\* the arguments of the calls
PortionNames ==
    DOMAIN FoodMaster \cup {"Palak paneer", "Plain roti", "Vegetable samosa",
                            "Vegetable fried rice", "Boiled egg", "Carrot halwa",
                            "Moong dal halwa", "Tomato rice"}
PortionAmounts == 1..MaxAmount
PortionUnits ==
    {"cup", "Cups", "bowl", "katori", "plate", "glass", "piece", "small_cup",
     "small_plate", "tbsp", "tsp", "slice", "grams", "tokri"}

----------------------------------------------------------------------------
(* enhanced_medical_guardrails.get_enhanced_medical_guardrails *)

\* the medical food categories of the function, by its own keyword lists
is_vegetable(food_name_lower) ==
    AnyKeyword(food_name_lower,
        <<"vegetable", "sabzi", "subji", "cabbage", "cauliflower", "spinach", "broccoli",
          "beans", "carrot", "beetroot", "tomato", "cucumber", "onion", "capsicum",
          "bell pepper", "leafy", "greens", "bhindi", "okra", "brinjal", "eggplant",
          "gourd", "pumpkin", "radish", "stock", "soup">>)

is_lentil(food_name_lower) ==
    AnyKeyword(food_name_lower,
        <<"dal", "moong", "masoor", "arhar", "urad", "chana", "lentil", "chickpea",
          "split pea", "daliya", "porridge">>)

is_dessert(food_name_lower) ==
    AnyKeyword(food_name_lower,
        <<"cake", "ice cream", "jamun", "sweet", "chocolate", "caramel", "kheer",
          "halwa", "laddu", "barfi", "rasgulla", "kulfi", "pastry", "cookie", "biscuit",
          "mithai", "gulab", "jalebi", "lassi">>)

is_grain(food_name_lower) ==
    AnyKeyword(food_name_lower,
        <<"rice", "biryani", "pulao", "poha", "upma", "flakes", "murmura">>)

is_bread(food_name_lower) ==
    AnyKeyword(food_name_lower, <<"roti", "chapati", "paratha", "naan", "bread">>)

\* mutant: the vegetable guideline is tried first, dessert or not
MedicalGuideline_VegetableFirst(food_name, food_row, f) ==
    LET food_name_lower == lower(food_name) IN
    IF is_vegetable(food_name_lower) THEN
        IF LE(f, f.GL_portion, 150) /\ LE(f, f.sugar_effective_g, 120) THEN
            IF GE(f, f.portion_multiplier, 40)
            THEN Verdict("caution", <<"very_large_vegetable_portion">>)
            ELSE Verdict("safe", <<"healthy_vegetable">>)
        ELSE IF LE(f, f.GL_portion, 250) /\ LE(f, f.sugar_effective_g, 200)
        THEN Verdict("caution", <<"vegetable_moderate_gl_sugar">>)
        ELSE Verdict("caution", <<"vegetable_high_gl_sugar">>)
    ELSE IF is_lentil(food_name_lower) /\ ~is_dessert(food_name_lower) THEN
        IF LE(f, f.GL_portion, 200) /\ LE(f, f.sugar_effective_g, 150) THEN
            IF GE(f, f.portion_multiplier, 30)
            THEN Verdict("caution", <<"large_lentil_portion">>)
            ELSE Verdict("safe", <<"healthy_lentil">>)
        ELSE IF LE(f, f.GL_portion, 350)
        THEN Verdict("caution", <<"lentil_moderate_gl">>)
        ELSE Verdict("caution", <<"lentil_high_gl">>)
    ELSE IF is_dessert(food_name_lower) THEN
        IF food_row.sugar_g >= 10 \/ GE(f, f.sugar_effective_g, 60)
        THEN Verdict("unsafe", <<"dessert_high_sugar">>)
        ELSE IF food_row.sugar_g >= 5 \/ GE(f, f.sugar_effective_g, 30)
        THEN Verdict("caution", <<"dessert_moderate_sugar">>)
        ELSE Verdict("caution", <<"dessert_low_sugar">>)
    ELSE IF is_grain(food_name_lower) THEN
        IF LE(f, f.GL_portion, 100) THEN Verdict("safe", <<"grain_reasonable">>)
        ELSE IF LE(f, f.GL_portion, 200) THEN Verdict("caution", <<"grain_moderate">>)
        ELSE Verdict("unsafe", <<"grain_high_gl">>)
    ELSE IF is_bread(food_name_lower) THEN
        IF LE(f, f.GL_portion, 150) THEN Verdict("safe", <<"bread_reasonable">>)
        ELSE IF LE(f, f.GL_portion, 250) THEN Verdict("caution", <<"bread_moderate">>)
        ELSE Verdict("unsafe", <<"bread_high_gl">>)
    ELSE Verdict("None", <<>>)

\* medical guidelines 1 to 5: the one if/elif chain over the categories
MedicalGuideline(food_name, food_row, f) ==
    LET food_name_lower == lower(food_name) IN
    IF is_vegetable(food_name_lower) /\ ~is_dessert(food_name_lower) THEN
        IF LE(f, f.GL_portion, 150) /\ LE(f, f.sugar_effective_g, 120) THEN
            IF GE(f, f.portion_multiplier, 40)
            THEN Verdict("caution", <<"very_large_vegetable_portion">>)
            ELSE Verdict("safe", <<"healthy_vegetable">>)
        ELSE IF LE(f, f.GL_portion, 250) /\ LE(f, f.sugar_effective_g, 200)
        THEN Verdict("caution", <<"vegetable_moderate_gl_sugar">>)
        ELSE Verdict("caution", <<"vegetable_high_gl_sugar">>)
    ELSE IF is_lentil(food_name_lower) /\ ~is_dessert(food_name_lower) THEN
        IF LE(f, f.GL_portion, 200) /\ LE(f, f.sugar_effective_g, 150) THEN
            IF GE(f, f.portion_multiplier, 30)
            THEN Verdict("caution", <<"large_lentil_portion">>)
            ELSE Verdict("safe", <<"healthy_lentil">>)
        ELSE IF LE(f, f.GL_portion, 350)
        THEN Verdict("caution", <<"lentil_moderate_gl">>)
        ELSE Verdict("caution", <<"lentil_high_gl">>)
    ELSE IF is_dessert(food_name_lower) THEN
        IF food_row.sugar_g >= 10 \/ GE(f, f.sugar_effective_g, 60)
        THEN Verdict("unsafe", <<"dessert_high_sugar">>)
        ELSE IF food_row.sugar_g >= 5 \/ GE(f, f.sugar_effective_g, 30)
        THEN Verdict("caution", <<"dessert_moderate_sugar">>)
        ELSE Verdict("caution", <<"dessert_low_sugar">>)
    ELSE IF is_grain(food_name_lower) THEN
        IF LE(f, f.GL_portion, 100) THEN Verdict("safe", <<"grain_reasonable">>)
        ELSE IF LE(f, f.GL_portion, 200) THEN Verdict("caution", <<"grain_moderate">>)
        ELSE Verdict("unsafe", <<"grain_high_gl">>)
    ELSE IF is_bread(food_name_lower) THEN
        IF LE(f, f.GL_portion, 150) THEN Verdict("safe", <<"bread_reasonable">>)
        ELSE IF LE(f, f.GL_portion, 250) THEN Verdict("caution", <<"bread_moderate">>)
        ELSE Verdict("unsafe", <<"bread_high_gl">>)
    ELSE Verdict("None", <<>>)

\* mutant: the extreme checks set UNSAFE and give no reason
ExtremeSafetyChecks_Silent(f, v) ==
    IF GE(f, f.sugar_effective_g, 300) THEN Verdict("unsafe", v.reasons)
    ELSE IF GE(f, f.GL_portion, 400) THEN Verdict("unsafe", v.reasons)
    ELSE IF GE(f, f.portion_multiplier, 60) THEN Verdict("unsafe", v.reasons)
    ELSE v

\* the extreme safety checks that follow the guidelines
ExtremeSafetyChecks(f, v) ==
    IF GE(f, f.sugar_effective_g, 300)
    THEN Verdict("unsafe", Append(v.reasons, "extreme_sugar_load"))
    ELSE IF GE(f, f.GL_portion, 400)
    THEN Verdict("unsafe", Append(v.reasons, "extreme_glycemic_load"))
    ELSE IF GE(f, f.portion_multiplier, 60)
    THEN Verdict("unsafe", Append(v.reasons, "extremely_large_portion"))
    ELSE v

\* the function: (risk_level, reasons) for the row named food_name
get_enhanced_medical_guardrails(food_name, food_row, f) ==
    ExtremeSafetyChecks(f, MedicalGuideline(food_name, food_row, f))

----------------------------------------------------------------------------
(* Initial state: the module is imported, startup has not run *)

NoHealth == [status |-> "", model_loaded |-> FALSE, foods_count |-> 0, version |-> ""]
NoDocuments == [logs |-> <<>>, logs_summary |-> <<>>]
NoMealLog == [userId |-> "", meals |-> <<>>]
NoLogResponse == [status |-> 0, detail |-> "", results |-> <<>>, overall_risk |-> ""]
\* get_enhanced_medical_guardrails has not been called
NoEnhanced == [called |-> FALSE, risk_level |-> "None", reasons |-> <<>>]
NoPortion ==
    [food_name |-> "", requested_amount |-> 0, requested_unit |-> "", grams |-> 0,
     safety_level |-> "", advice |-> "", category |-> "", printed |-> {}]

\* startup has not run
NotStarted ==
    /\ meal_safety_predictor = "None"
    /\ food_df = NoRows
    /\ model = "None"
    /\ scaler = "None"
    /\ feature_names = "None"

\* no request has been served
NoCalls ==
    /\ pc = [c \in 1..2 |-> "idle"]
    /\ request = [c \in 1..2 |-> NoRequest]
    /\ portion_size_g = [c \in 1..2 |-> 0]
    /\ portion_features = [c \in 1..2 |-> NoFeatures]
    /\ risk_level = [c \in 1..2 |-> "None"]
    /\ reasons = [c \in 1..2 |-> <<>>]
    /\ model_prediction = [c \in 1..2 |-> "None"]
    /\ model_confidence = [c \in 1..2 |-> 0]
    /\ model_calls = [c \in 1..2 |-> 0]
    /\ result = [c \in 1..2 |-> NoResult]
    /\ warnings = [c \in 1..2 |-> {}]
    /\ main_model = "None"
    /\ health = NoHealth
    /\ collections = NoDocuments
    /\ log_request = NoMealLog
    /\ log_predictions = <<>>
    /\ log_response = NoLogResponse
    /\ enhanced = NoEnhanced

\* main.py imported, whatever the Firebase import gave
Imported == NotStarted /\ NoCalls /\ portion = NoPortion

\* the Firebase import succeeded
Init == Imported /\ firestore_db = "client"

----------------------------------------------------------------------------
(* Actions *)

\* startup_event -> load_model_artifacts: the dataset loads or not, then the
\* model artifacts load (some trained model) or not
load_model_artifacts ==
    /\ meal_safety_predictor = "None"
    /\ meal_safety_predictor' = "constructed"
    /\ \/ /\ food_df' = NoRows
          /\ UNCHANGED <<model, scaler, feature_names>>
       \/ /\ food_df' = FoodMaster
          /\ \/ UNCHANGED <<model, scaler, feature_names>>
             \/ \E m \in Classifiers :
                   /\ model' = m
                   /\ scaler' = "fitted"
                   /\ feature_names' = "loaded"
    /\ UNCHANGED locals
    /\ UNCHANGED outside

\* POST /predict up to the call of apply_hard_guardrails: unit conversion, BMI,
\* then predict_meal_safety's lookup and Step 1
predict(c, meals, quantities, units, users) ==
    /\ pc[c] = "idle"
    /\ \E meal \in meals, q \in quantities, unit \in units, u \in users :
        LET grams == q * portion_unit_to_grams(unit) IN
        /\ request' = [request EXCEPT ![c] =
              [meal_taken |-> meal, portion_size |-> q, portion_unit |-> unit, user |-> u]]
        /\ IF meal_safety_predictor = "None" THEN
              /\ result' = [result EXCEPT ![c] =
                    HttpError(503, "Prediction system not initialized")]
              /\ pc' = [pc EXCEPT ![c] = "done"]
              /\ UNCHANGED <<portion_size_g, portion_features>>
           ELSE IF food_df = NoRows THEN
              /\ result' = [result EXCEPT ![c] = HttpError(400, "Food dataset not loaded")]
              /\ pc' = [pc EXCEPT ![c] = "done"]
              /\ portion_size_g' = [portion_size_g EXCEPT ![c] = grams]
              /\ UNCHANGED portion_features
           ELSE IF meal \notin DOMAIN food_df THEN
              /\ result' = [result EXCEPT ![c] =
                    [HttpError(400, "Food not found") EXCEPT
                        !.similar = similar_foods(food_df, meal)]]
              /\ pc' = [pc EXCEPT ![c] = "done"]
              /\ portion_size_g' = [portion_size_g EXCEPT ![c] = grams]
              /\ UNCHANGED portion_features
           ELSE IF DivisionByZero(food_df[meal]) THEN
              /\ result' = [result EXCEPT ![c] =
                    HttpError(500, "Prediction error: float division by zero")]
              /\ pc' = [pc EXCEPT ![c] = "done"]
              /\ portion_size_g' = [portion_size_g EXCEPT ![c] = grams]
              /\ UNCHANGED portion_features
           ELSE
              /\ portion_size_g' = [portion_size_g EXCEPT ![c] = grams]
              /\ portion_features' = [portion_features EXCEPT ![c] =
                    compute_portion_features(food_df[meal], grams)]
              /\ pc' = [pc EXCEPT ![c] = "rule1"]
              /\ UNCHANGED result
    /\ UNCHANGED <<risk_level, reasons, model_prediction, model_confidence, model_calls,
                   warnings>>
    /\ UNCHANGED shared
    /\ UNCHANGED outside

\* apply_hard_guardrails: the next of its five rules
GuardrailRule(c) ==
    /\ pc[c] \in {"rule1", "rule2", "rule3", "rule4", "rule5"}
    /\ LET v == RuleAt(pc[c], food_df[request[c].meal_taken], portion_features[c],
                       Verdict(risk_level[c], reasons[c])) IN
        /\ risk_level' = [risk_level EXCEPT ![c] = v.risk_level]
        /\ reasons' = [reasons EXCEPT ![c] = v.reasons]
    /\ pc' = [pc EXCEPT ![c] = NextPc(pc[c])]
    /\ UNCHANGED <<request, portion_size_g, portion_features, model_prediction,
                   model_confidence, model_calls, result, warnings>>
    /\ UNCHANGED shared
    /\ UNCHANGED outside

\* the user_data dict the endpoint builds
user_data(u) ==
    LET r == UserFields(u) IN
    [age |-> r.age, gender |-> r.gender, bmi |-> calculate_bmi(r.weight_kg, r.height_cm),
     fasting_sugar |-> r.fasting_sugar, post_meal_sugar |-> r.post_meal_sugar,
     time_of_day |-> r.time_of_day]

\* mutant: a model whose query raised is unloaded for the calls that follow
ModelPrediction_DisableOnFailure(c) ==
    /\ pc[c] = "model"
    /\ IF ModelIsQueried(model, risk_level[c]) THEN
          LET x == prepare_features_for_model(portion_features[c],
                                              user_data(request[c].user))
              o == ModelOutcome(model, x) IN
          /\ model_prediction' = [model_prediction EXCEPT ![c] = o.model_prediction]
          /\ model_confidence' = [model_confidence EXCEPT ![c] = o.model_confidence]
          /\ model_calls' = [model_calls EXCEPT ![c] = @ + 1]
          /\ warnings' = [warnings EXCEPT ![c] = @ \cup o.printed]
          /\ model' = IF Classify(model, x).raised THEN "None" ELSE model
       ELSE UNCHANGED <<model_prediction, model_confidence, model_calls, model, warnings>>
    /\ pc' = [pc EXCEPT ![c] = "fuse"]
    /\ UNCHANGED <<request, portion_size_g, portion_features, risk_level, reasons, result>>
    /\ UNCHANGED <<meal_safety_predictor, food_df, scaler, feature_names>>
    /\ UNCHANGED outside

\* predict_meal_safety Step 3: model prediction (if guardrails allow)
ModelPrediction(c) ==
    /\ pc[c] = "model"
    /\ IF ModelIsQueried(model, risk_level[c]) THEN
          LET o == ModelOutcome(model,
                      prepare_features_for_model(portion_features[c],
                                                 user_data(request[c].user))) IN
          /\ model_prediction' = [model_prediction EXCEPT ![c] = o.model_prediction]
          /\ model_confidence' = [model_confidence EXCEPT ![c] = o.model_confidence]
          /\ model_calls' = [model_calls EXCEPT ![c] = @ + 1]
          /\ warnings' = [warnings EXCEPT ![c] = @ \cup o.printed]
       ELSE UNCHANGED <<model_prediction, model_confidence, model_calls, warnings>>
    /\ pc' = [pc EXCEPT ![c] = "fuse"]
    /\ UNCHANGED <<request, portion_size_g, portion_features, risk_level, reasons, result>>
    /\ UNCHANGED shared
    /\ UNCHANGED outside

\* predict_meal_safety Steps 4 and 5 and the endpoint's response
Respond(c) ==
    /\ pc[c] = "fuse"
    /\ result' = [result EXCEPT ![c] =
          PredictionResult(portion_features[c], risk_level[c], reasons[c],
                           model_prediction[c], model_confidence[c])]
    /\ pc' = [pc EXCEPT ![c] = "done"]
    /\ UNCHANGED <<request, portion_size_g, portion_features, risk_level, reasons,
                   model_prediction, model_confidence, model_calls, warnings>>
    /\ UNCHANGED shared
    /\ UNCHANGED outside

\* predict_meal_safety on a food of the dataset, as one evaluation
RunAlone(req) ==
    LET row == food_df[req.meal_taken]
        f == compute_portion_features(row,
                 req.portion_size * portion_unit_to_grams(req.portion_unit))
        g == apply_hard_guardrails(row, f)
        o == IF ModelIsQueried(model, g.risk_level)
             THEN ModelOutcome(model, prepare_features_for_model(f, user_data(req.user)))
             ELSE [model_prediction |-> "None", model_confidence |-> 0, printed |-> {}]
    IN PredictionResult(f, g.risk_level, g.reasons, o.model_prediction, o.model_confidence)

\* POST /predict as one evaluation, for a caller that awaits it
predict_meal_safety(req) ==
    IF meal_safety_predictor = "None"
    THEN HttpError(503, "Prediction system not initialized")
    ELSE IF food_df = NoRows THEN HttpError(400, "Food dataset not loaded")
    ELSE IF req.meal_taken \notin DOMAIN food_df
    THEN [HttpError(400, "Food not found") EXCEPT
             !.similar = similar_foods(food_df, req.meal_taken)]
    ELSE IF DivisionByZero(food_df[req.meal_taken])
    THEN HttpError(500, "Prediction error: float division by zero")
    ELSE RunAlone(req)

\* sequences of at most n elements of S
SeqUpTo(S, n) == UNION {[1..k -> S] : k \in 0..n}

\* the meals a log may list, and the logs a client may post
LogMeals ==
    [meal_name : {"Mixed dal", "Plain cream cake", "plain cream cake"},
     quantity : {2}, unit : {"cup"}, time_of_day : {"Lunch"}]
MealLogs == [userId : {"user"}, meals : SeqUpTo(LogMeals, MaxMeals)]

\* the MealRequest the log endpoint builds for a meal, with its default user
LogRequest(meal) ==
    [meal_taken |-> meal.meal_name, portion_size |-> meal.quantity,
     portion_unit |-> meal.unit, user |-> "log"]

\* the first position of ps at which the prediction failed, Len(ps) + 1 if none
FirstFailure(ps) ==
    IF \E i \in 1..Len(ps) : ps[i].status # 200
    THEN CHOOSE i \in 1..Len(ps) :
            ps[i].status # 200 /\ \A j \in 1..(i - 1) : ps[j].status = 200
    ELSE Len(ps) + 1

\* POST /log-meal-firestore. store_fails_at is the Firestore write that raises:
\* the add of the meal's log entry for 1..n, the add of the summary for n + 1,
\* none for 0
log_meal_to_firestore ==
    \E predictions \in {{<<meal, predict_meal_safety(LogRequest(meal))>> : meal \in LogMeals}},
       log \in MealLogs, store_fails_at \in 0..(MaxMeals + 1) :
        LET n == Len(log.meals)
            \* what `await predict_meal_safety(predict_req)` gives for each meal
            ps == [i \in 1..n |-> (CHOOSE p \in predictions : p[1] = log.meals[i])[2]]
            pf == FirstFailure(ps)
            sf == IF store_fails_at = 0 THEN n + 2 ELSE store_fails_at
            \* meals whose prediction was computed, meals whose entry was stored
            predicted == IF pf <= sf THEN pf - 1 ELSE IF sf <= n THEN sf ELSE n
            stored == IF pf <= sf THEN pf - 1 ELSE IF sf <= n THEN sf - 1 ELSE n
            entries == [i \in 1..stored |->
                          [meal_name |-> log.meals[i].meal_name,
                           quantity |-> log.meals[i].quantity,
                           prediction |-> ps[i]]]
            results == [i \in 1..n |->
                          [meal |-> log.meals[i].meal_name,
                           risk |-> ps[i].response_risk_level]]
            risk_levels == {results[i].risk : i \in 1..n}
            overall_risk == IF "high" \in risk_levels THEN "high"
                            ELSE IF "medium" \in risk_levels THEN "medium"
                            ELSE "low"
        IN
        /\ store_fails_at <= n + 1
        /\ Len(collections.logs) + n <= MaxLogs
        /\ Len(collections.logs_summary) < MaxLogs
        /\ log_request' = log
        /\ IF firestore_db = "None" THEN
              /\ log_response' = [NoLogResponse EXCEPT
                     !.status = 503, !.detail = "Firebase/Firestore not available"]
              /\ log_predictions' = <<>>
              /\ UNCHANGED collections
           ELSE
              /\ log_predictions' = [i \in 1..predicted |-> ps[i]]
              /\ IF pf <= n \/ sf <= n + 1 THEN
                    /\ log_response' = [NoLogResponse EXCEPT
                           !.status = 500, !.detail = "Failed to log meals"]
                    /\ collections' = [collections EXCEPT !.logs = @ \o entries]
                 ELSE
                    /\ log_response' = [status |-> 200, detail |-> "",
                                        results |-> results,
                                        overall_risk |-> overall_risk]
                    /\ collections' =
                          [logs |-> collections.logs \o entries,
                           logs_summary |-> Append(collections.logs_summary,
                               [meals |-> [i \in 1..n |-> results[i].meal],
                                overall_risk |-> overall_risk])]
        /\ UNCHANGED firestore_db
        /\ UNCHANGED <<health_vars, portion, enhanced>>
        /\ UNCHANGED shared
        /\ UNCHANGED locals

\* the dataset main.py reads for itself at import
main_food_df == FoodMaster

\* GET /health
health_check ==
    /\ health' = [status |-> IF main_model # "None" THEN "healthy" ELSE "model_not_loaded",
                  model_loaded |-> main_model # "None",
                  foods_count |-> Cardinality(DOMAIN main_food_df),
                  version |-> "2.0.0"]
    /\ UNCHANGED main_model
    /\ UNCHANGED <<log_vars, portion, enhanced>>
    /\ UNCHANGED shared
    /\ UNCHANGED locals

\* one client, every request
Next ==
    \/ load_model_artifacts
    \/ health_check
    \/ predict(1, MealNames, Quantities, Units, Users)
    \/ GuardrailRule(1)
    \/ ModelPrediction(1)
    \/ Respond(1)

Spec == Init /\ [][Next]_vars

\* two concurrent clients, requests by the piece in positive quantities
NextPair ==
    \/ load_model_artifacts
    \/ \E c \in 1..2 :
          \/ predict(c, DOMAIN FoodMaster, PairQuantities, {"piece"}, {"u1"})
          \/ GuardrailRule(c)
          \/ ModelPrediction(c)
          \/ Respond(c)

SpecPair == Init /\ [][NextPair]_vars

\* one-dish datasets whose rows put the effective sugar, glycemic load and
\* calories on, below and above every threshold of the five rules as the
\* portion runs from 0.5 to 5 servings of 100 g
GridFoods ==
    {Food(100, carbs, sugar, cal, 0, 0, 100, carbs, avoid) :
        carbs \in {0, 4, 5, 10, 30}, sugar \in {0, 4, 5, 10, 20, 50},
        cal \in {0, 400, 1400}, avoid \in {"No", "Yes", "YES"}}

\* rows whose serving_size_g is 0
ZeroServingFoods ==
    {Food(0, 10, 5, 100, 0, 0, 50, 5, avoid) : avoid \in {"No", "Yes"}}

\* startup has loaded a one-dish dataset and some model, or none
InitGrid ==
    /\ NoCalls
    /\ portion = NoPortion
    /\ firestore_db = "client"
    /\ \E row \in GridFoods \cup ZeroServingFoods, m \in Classifiers \cup {"None"} :
          /\ meal_safety_predictor = "constructed"
          /\ food_df = [d \in {"Grid dish"} |-> row]
          /\ model = m
          /\ scaler = IF m = "None" THEN "None" ELSE "fitted"
          /\ feature_names = IF m = "None" THEN "None" ELSE "loaded"

\* one client asking for slices of the one dish
NextGrid ==
    \/ predict(1, {"Grid dish"}, GridQuantities, {"slice"}, {"u1"})
    \/ GuardrailRule(1)
    \/ ModelPrediction(1)
    \/ Respond(1)

SpecGrid == InitGrid /\ [][NextGrid]_vars

\* two-dish datasets for comparing evaluations: both dishes carry the same
\* avoid flag, and their rows put a portion of 0.5 to 4 servings in the low,
\* moderate, elevated and high-risk bands of the avoid rule, with calories
\* that reach the 700 kcal band at 4 servings only
MonoFoods ==
    {Food(100, carbs, sugar, 175, 0, 0, 100, carbs, avoid) :
        carbs \in {4, 10}, sugar \in {4, 11, 30}, avoid \in {"No", "Yes"}}

\* startup has loaded a two-dish dataset and no model
InitMono ==
    /\ NoCalls
    /\ portion = NoPortion
    /\ firestore_db = "client"
    /\ meal_safety_predictor = "constructed"
    /\ model = "None" /\ scaler = "None" /\ feature_names = "None"
    /\ \E row \in MonoFoods, other \in MonoFoods :
          /\ avoid_for_diabetic(row) = avoid_for_diabetic(other)
          /\ food_df = [d \in {"Grid dish", "Other dish"} |->
                           IF d = "Grid dish" THEN row ELSE other]

\* two clients asking for slices of the two dishes
NextMono ==
    \E c \in 1..2 :
        \/ predict(c, {"Grid dish", "Other dish"}, MonoQuantities, {"slice"}, {"u1"})
        \/ GuardrailRule(c)
        \/ ModelPrediction(c)
        \/ Respond(c)

SpecMono == InitMono /\ [][NextMono]_vars

\* dish names for the category-aware guardrail: each of its five categories,
\* desserts named after a vegetable or a lentil, rice dishes named after a
\* vegetable, and dishes none of its lists matches
EnhancedNames ==
    {"Plain cream cake", "Carrot halwa", "Moong dal halwa", "Vegetable fried rice",
     "Tomato rice", "Mixed dal", "White rice", "Plain roti", "Palak paneer",
     "Boiled egg"}

\* rows that put the effective sugar and GL_portion on, below and above the
\* thresholds of the guidelines as the portion runs from 0.5 to 6 servings
EnhancedFoods ==
    {Food(100, carbs, sugar, 100, 0, 0, 100, carbs, avoid) :
        carbs \in {0, 5, 10}, sugar \in {0, 1, 5, 10}, avoid \in {"No", "Yes"}}

\* startup has loaded a one-dish dataset and some model, or none
InitEnhanced ==
    /\ NoCalls
    /\ portion = NoPortion
    /\ firestore_db = "client"
    /\ \E food_name \in EnhancedNames, row \in EnhancedFoods,
          m \in {"None", "always_safe"} :
          /\ meal_safety_predictor = "constructed"
          /\ food_df = [d \in {food_name} |-> row]
          /\ model = m
          /\ scaler = IF m = "None" THEN "None" ELSE "fitted"
          /\ feature_names = IF m = "None" THEN "None" ELSE "loaded"

\* get_enhanced_medical_guardrails is called on the row and the portion
\* features of call c
EnhancedGuardrailsCall(c) ==
    /\ portion_features[c] # NoFeatures
    /\ ~enhanced.called
    /\ LET v == get_enhanced_medical_guardrails(request[c].meal_taken,
                    food_df[request[c].meal_taken], portion_features[c]) IN
       enhanced' = [called |-> TRUE, risk_level |-> v.risk_level, reasons |-> v.reasons]
    /\ UNCHANGED <<health_vars, log_vars, portion>>
    /\ UNCHANGED shared
    /\ UNCHANGED locals

\* one client asking for slices of the one dish, and the category-aware
\* guardrail applied to the same row and features
NextEnhanced ==
    \/ predict(1, DOMAIN food_df, EnhancedQuantities, {"slice"}, {"u1"})
    \/ GuardrailRule(1)
    \/ ModelPrediction(1)
    \/ Respond(1)
    \/ EnhancedGuardrailsCall(1)

SpecEnhanced == InitEnhanced /\ [][NextEnhanced]_vars

\* rows for two-dish datasets whose dishes differ in the stored
\* glycemic_load only, and the stored loads of the two
TwinFoods ==
    {Food(100, carbs, sugar, 175, 2, 1, 50, 5, avoid) :
        carbs \in {10, 30}, sugar \in {4, 30}, avoid \in {"No", "Yes"}}
TwinLoad == 40

\* startup has loaded a dish and its twin, and a model or none
InitTwin ==
    /\ NoCalls
    /\ portion = NoPortion
    /\ firestore_db = "client"
    /\ \E row \in TwinFoods, m \in {"None", "likes_large_portions"} :
          /\ meal_safety_predictor = "constructed"
          /\ food_df = [d \in {"Grid dish", "Twin dish"} |->
                           IF d = "Grid dish" THEN row
                           ELSE [row EXCEPT !.glycemic_load = TwinLoad]]
          /\ model = m
          /\ scaler = IF m = "None" THEN "None" ELSE "fitted"
          /\ feature_names = IF m = "None" THEN "None" ELSE "loaded"

\* two clients asking for cups of the dish and of its twin
NextTwin ==
    \E c \in 1..2 :
        \/ predict(c, {"Grid dish", "Twin dish"}, TwinQuantities, {"cup"}, {"u1", "u2"})
        \/ GuardrailRule(c)
        \/ ModelPrediction(c)
        \/ Respond(c)

SpecTwin == InitTwin /\ [][NextTwin]_vars

\* a call of FoodCategoryManager.get_appropriate_portion_size is about to be
\* made with some arguments
InitPortion ==
    /\ NotStarted
    /\ NoCalls
    /\ firestore_db = "client"
    /\ \E food_name \in PortionNames, requested_amount \in PortionAmounts,
          requested_unit \in PortionUnits :
          portion = [NoPortion EXCEPT !.food_name = food_name,
                                      !.requested_amount = requested_amount,
                                      !.requested_unit = requested_unit]

\* the call has not returned
PortionPending == portion.safety_level = ""

\* the call of FoodCategoryManager.get_appropriate_portion_size runs
PortionSizeCall ==
    /\ PortionPending
    /\ portion' = get_appropriate_portion_size(portion.food_name,
                       portion.requested_amount, portion.requested_unit)
    /\ UNCHANGED <<health_vars, log_vars, enhanced>>
    /\ UNCHANGED shared
    /\ UNCHANGED locals

\* the portion table on its own
NextPortion == PortionSizeCall

SpecPortion == InitPortion /\ [][NextPortion]_vars

\* main.py imported with or without Firebase
InitLog == Imported /\ firestore_db \in {"None", "client"}

\* startup and the log endpoint
NextLog ==
    \/ load_model_artifacts
    \/ log_meal_to_firestore

SpecLog == InitLog /\ [][NextLog]_vars

----------------------------------------------------------------------------
(* Vocabulary of the properties *)

\* the call has left apply_hard_guardrails
GuardrailsDone(c) == pc[c] \in {"model", "fuse"} \/ (pc[c] = "done" /\ result[c].status = 200)

\* the call found its food and computed its features (Step 1)
Entered(c) == portion_features[c] # NoFeatures

\* predict_meal_safety has returned its dict to the endpoint
Returned(c) == pc[c] = "done" /\ result[c].status = 200

\* what the loaded classifier answers on the call's feature vector
Asked(c) ==
    Classify(model, prepare_features_for_model(portion_features[c],
                                               user_data(request[c].user)))

ClassifierAnswers(c) == model # "None" /\ ~Asked(c).raised
ClassifierUnavailable(c) == model = "None" \/ Asked(c).raised

----------------------------------------------------------------------------
(* C1: whenever apply_hard_guardrails returns UNSAFE, the final risk_level *)
(* is 'unsafe' with confidence 0.95 whatever classifier is loaded, and the *)
(* classifier is not queried on that path.                                 *)
C1_UnsafeGuardrailIsFinal ==
    \A c \in 1..2 :
        risk_level[c] = "unsafe" =>
            /\ model_calls[c] = 0
            /\ model_prediction[c] = "None"
            /\ Returned(c) => /\ result[c].risk_level = "unsafe"
                              /\ result[c].confidence = 950

\* a call returned with an UNSAFE guardrail while the loaded classifier answers
\* SAFE with confidence 1.0 on its features
C1_Witness ==
    \E c \in 1..2 :
        /\ Returned(c) /\ risk_level[c] = "unsafe"
        /\ model = "always_safe"
        /\ Asked(c) = Answer(1, 1000)

(* C3: when no guardrail rule fired and the loaded classifier answers, the *)
(* final verdict is the classifier's prediction: SAFE for class 1, CAUTION *)
(* for class 0.                                                            *)
C3_DeferToClassifier ==
    \A c \in 1..2 :
        (Returned(c) /\ risk_level[c] = "None" /\ ClassifierAnswers(c)) =>
            /\ model_calls[c] = 1
            /\ result[c].risk_level = IF Asked(c).pred_class = 1 THEN "safe" ELSE "caution"

\* a guardrail-free call whose classifier said class 0, at a nonzero portion
C3_Witness ==
    \E c \in 1..2 :
        /\ Returned(c) /\ risk_level[c] = "None" /\ ClassifierAnswers(c)
        /\ Asked(c).pred_class = 0
        /\ portion_size_g[c] > 0
        /\ result[c].risk_level = "caution"

(* C4: with a CAUTION guardrail the final verdict is SAFE iff the          *)
(* classifier predicts SAFE with confidence strictly above 0.9, and then   *)
(* the final confidence is the classifier's times 0.8; otherwise the final *)
(* verdict is CAUTION.                                                     *)
C4_CautionFusion ==
    \A c \in 1..2 :
        (Returned(c) /\ risk_level[c] = "caution") =>
            LET sure == ClassifierAnswers(c) /\ Asked(c).pred_class = 1
                        /\ Asked(c).confidence > 900 IN
            /\ result[c].risk_level = "safe" <=> sure
            /\ sure => 10 * result[c].confidence = 8 * Asked(c).confidence
            /\ ~sure => result[c].risk_level = "caution"

\* a CAUTION guardrail overridden by a classifier that is sure but not certain
C4_Witness ==
    \E c \in 1..2 :
        /\ Returned(c) /\ risk_level[c] = "caution"
        /\ ClassifierAnswers(c) /\ Asked(c) = Answer(1, 950)
        /\ result[c].risk_level = "safe" /\ result[c].confidence = 760

(* C5: if the classifier is unavailable (no model loaded, or its call      *)
(* raises) the call still returns a result, having queried the classifier  *)
(* at most once; when no guardrail fired either, the final verdict is      *)
(* CAUTION with a moderate confidence (0.5 or 0.6), never SAFE.            *)
C5_ClassifierUnavailable ==
    \A c \in 1..2 :
        ClassifierUnavailable(c) =>
            /\ model_calls[c] <= 1
            /\ model = "None" => model_calls[c] = 0
            /\ (pc[c] = "done" /\ Entered(c)) =>
                    /\ result[c].status = 200
                    /\ result[c].risk_level # "safe"
                    /\ risk_level[c] = "None" =>
                          /\ result[c].risk_level = "caution"
                          /\ result[c].confidence \in {500, 600}

\* a guardrail-free call returned after its one classifier query raised
C5_Witness ==
    \E c \in 1..2 :
        /\ Returned(c) /\ risk_level[c] = "None"
        /\ model # "None" /\ Asked(c).raised /\ model_calls[c] = 1
        /\ result[c].risk_level = "caution" /\ result[c].confidence = 500

(* C7: during apply_hard_guardrails the running verdict never decreases in *)
(* severity from one rule to the next (null < CAUTION < UNSAFE).           *)
C7_VerdictNeverDecreases ==
    [][\A c \in 1..2 : Sev(risk_level'[c]) >= Sev(risk_level[c])]_vars

\* a later rule found only a CAUTION-level concern after UNSAFE was set
C7_Witness ==
    \E c \in 1..2 :
        /\ risk_level[c] = "unsafe"
        /\ \E i \in 2..Len(reasons[c]) :
              reasons[c][i] \in {"high_sugar_load", "high_glycemic_load", "high_calorie_meal"}

(* C2: for a fixed food, user, unit and classifier, a larger quantity never *)
(* gets a less severe final verdict - as claimed, for every deterministic  *)
(* classifier, also one whose answer depends on the portion.               *)
SameButQuantity(a, b) ==
    /\ Returned(a) /\ Returned(b)
    /\ request[a].meal_taken = request[b].meal_taken
    /\ request[a].portion_unit = request[b].portion_unit
    /\ request[a].user = request[b].user
    /\ request[a].portion_size < request[b].portion_size

C2_PortionRatchet ==
    \A a, b \in 1..2 :
        SameButQuantity(a, b) => Sev(result[a].risk_level) <= Sev(result[b].risk_level)

(* C2 amended: the ratchet holds when the classifier is unavailable or     *)
(* gives the same answer on the feature vectors of both portions.          *)
C2_PortionRatchetSameAnswer ==
    \A a, b \in 1..2 :
        (SameButQuantity(a, b) /\ (model = "None" \/ Asked(a) = Asked(b))) =>
            Sev(result[a].risk_level) <= Sev(result[b].risk_level)

\* the same dish in two quantities, the classifier answering SAFE for both:
\* SAFE for the smaller portion, UNSAFE for the larger
C2_Witness ==
    \E a, b \in 1..2 :
        /\ SameButQuantity(a, b)
        /\ ClassifierAnswers(a) /\ Asked(a) = Asked(b) /\ Asked(a).pred_class = 1
        /\ result[a].risk_level = "safe" /\ result[b].risk_level = "unsafe"

(* C6: a /predict call writes none of the predictor's shared state; two    *)
(* calls with identical inputs return identical results; and under any     *)
(* interleaving each call returns what it returns when run alone.          *)
C6_CallsAreIndependent ==
    /\ [](\A c \in 1..2 : Returned(c) => result[c] = RunAlone(request[c]))
    /\ [](\A a, b \in 1..2 :
            (Returned(a) /\ Returned(b) /\ request[a] = request[b]) => result[a] = result[b])
    /\ [][(\E c \in 1..2 : pc'[c] # pc[c]) => UNCHANGED shared]_vars

\* two calls with the same request, both returned after one query each, the
\* classifier having failed on both
C6_Witness ==
    /\ Returned(1) /\ Returned(2) /\ request[1] = request[2]
    /\ model_calls[1] = 1 /\ model_calls[2] = 1
    /\ Asked(1).raised
    /\ result[1].confidence = 500

(* C8: every guardrail rule whose trigger condition holds for the features *)
(* has its reason string in the returned reasons, also when the verdict    *)
(* was already UNSAFE.                                                     *)
InReasons(c, tags) == \E i \in 1..Len(reasons[c]) : reasons[c][i] \in tags

Rule1Triggers(food_row, f) ==
    /\ avoid_for_diabetic(food_row)
    /\ ~(LE(f, f.GL_portion, 80) /\ LE(f, f.sugar_effective_g, 100)
         /\ LE(f, f.portion_multiplier, 30))
    /\ IF GE(f, f.sugar_effective_g, 250) /\ GE(f, f.GL_portion, 150) THEN TRUE
       ELSE IF LE(f, f.GL_portion, 150) /\ LE(f, f.sugar_effective_g, 200)
            THEN GE(f, f.portion_multiplier, 30)
            ELSE GE(f, f.portion_multiplier, 15)

Rule2Triggers(f) ==
    \/ GE(f, f.portion_multiplier, 30)
    \/ /\ GE(f, f.portion_multiplier, 20)
       /\ (GE(f, f.GL_portion, 120) \/ GE(f, f.sugar_effective_g, 150))

C8_AllTriggeredReasons ==
    \A c \in 1..2 :
        GuardrailsDone(c) =>
            LET f == portion_features[c]
                row == food_df[request[c].meal_taken] IN
            /\ Rule1Triggers(row, f) =>
                  InReasons(c, {"avoid_high_risk", "avoid_high_risk_small",
                                "avoid_excessive_portion", "avoid_large_portion",
                                "avoid_moderate_large_portion", "avoid_elevated_portion"})
            /\ Rule2Triggers(f) =>
                  InReasons(c, {"extreme_portion", "very_large_portion_high_gl_sugar",
                                "very_large_portion", "large_portion_moderate_gl_sugar"})
            /\ GE(f, f.sugar_effective_g, 300) =>
                  InReasons(c, {"very_high_sugar_load", "high_sugar_load"})
            /\ GE(f, f.GL_portion, 150) =>
                  InReasons(c, {"very_high_glycemic_load", "high_glycemic_load"})
            /\ GE(f, f.calories_effective_kcal, 7000) =>
                  InReasons(c, {"very_high_calorie_meal", "high_calorie_meal"})

(* C9: for a food not flagged avoid-for-diabetic, at a multiplier of       *)
(* exactly 3.0 with GL < 12, sugar < 15 g and calories < 700, no rule      *)
(* fires: null verdict, no reasons, the classifier's prediction is final.  *)
LowAtThreeTimes(c) ==
    LET f == portion_features[c] IN
    /\ Entered(c)
    /\ ~avoid_for_diabetic(food_df[request[c].meal_taken])
    /\ GE(f, f.portion_multiplier, 30) /\ LE(f, f.portion_multiplier, 30)
    /\ ~GE(f, f.GL_portion, 120)
    /\ ~GE(f, f.sugar_effective_g, 150)
    /\ ~GE(f, f.calories_effective_kcal, 7000)

C10_NonPositiveQuantityRejected ==
    \A c \in 1..2 :
        (pc[c] # "idle" /\ request[c].portion_size <= 0) =>
            /\ ~Entered(c)
            /\ pc[c] = "done"
            /\ result[c].status # 200

----------------------------------------------------------------------------
\* the body measurements sent with the call's request
NonPositiveBody(c) ==
    \/ UserFields(request[c].user).height_cm <= 0
    \/ UserFields(request[c].user).weight_kg <= 0

(* C11: a request whose height or weight is non-positive never gets a      *)
(* prediction: it is answered with a validation error, and no default BMI  *)
(* stands in for the missing one.                                          *)
C11_NonPositiveBodyRejected ==
    \A c \in 1..2 :
        (pc[c] # "idle" /\ NonPositiveBody(c)) => ~Returned(c)

----------------------------------------------------------------------------
\* the requested name equals a dataset key once both are lower-cased
MatchesIgnoringCase(c) ==
    \E d \in DOMAIN food_df : lower(d) = lower(request[c].meal_taken)

(* C15: a dish name that differs from a dataset key only in letter case    *)
(* resolves to that record: the call does not fail with NotFound and ends  *)
(* with a prediction.                                                      *)
C15_CaseInsensitiveLookup ==
    \A c \in 1..2 :
        (pc[c] # "idle" /\ meal_safety_predictor # "None" /\ MatchesIgnoringCase(c)) =>
            /\ result[c].detail # "Food not found"
            /\ pc[c] = "done" => result[c].status = 200

----------------------------------------------------------------------------
\* the explanation has a classifier note among its parts
HasModelNote(c) ==
    \E i \in 1..Len(result[c].explanation) :
        result[c].explanation[i] \in {"Model: safe", "Model: caution"}

(* C16: whenever the classifier is unavailable (none loaded, or its call   *)
(* raises) the returned result reports no classifier prediction and its    *)
(* explanation carries no classifier note.                                 *)
C16_GuardrailsOnlyMarked ==
    \A c \in 1..2 :
        (Returned(c) /\ ClassifierUnavailable(c)) =>
            /\ result[c].model_prediction = "None"
            /\ ~HasModelNote(c)

----------------------------------------------------------------------------
\* startup constructed the prediction system and loaded its model
StartupLoadedModel == meal_safety_predictor # "None" /\ model # "None"

(* C18: once startup has loaded the prediction system and its model, every *)
(* /health call answers model_loaded = true and status 'healthy'.          *)
C18_HealthReportsModel ==
    [][(health' # health /\ StartupLoadedModel) =>
          (health'.model_loaded /\ health'.status = "healthy")]_vars

----------------------------------------------------------------------------
(* The thresholds of the guardrail table, on a call's portion features *)

MultAtLeast(c, t10) == GE(portion_features[c], portion_features[c].portion_multiplier, t10)
MultAtMost(c, t10) == LE(portion_features[c], portion_features[c].portion_multiplier, t10)
SugarAtLeast(c, t10) == GE(portion_features[c], portion_features[c].sugar_effective_g, t10)
SugarAtMost(c, t10) == LE(portion_features[c], portion_features[c].sugar_effective_g, t10)
GLAtLeast(c, t10) == GE(portion_features[c], portion_features[c].GL_portion, t10)
GLAtMost(c, t10) == LE(portion_features[c], portion_features[c].GL_portion, t10)
CaloriesAtLeast(c, t10) ==
    GE(portion_features[c], portion_features[c].calories_effective_kcal, t10)

\* the requested food carries the avoid flag
Flagged(c) == avoid_for_diabetic(food_df[request[c].meal_taken])

----------------------------------------------------------------------------
\* the verdict the Rule 1 table gives a call
Rule1Table(c) ==
    IF ~Flagged(c) THEN "None"
    ELSE IF GLAtMost(c, 80) /\ SugarAtMost(c, 100) /\ MultAtMost(c, 30) THEN "None"
    ELSE IF SugarAtLeast(c, 250) /\ GLAtLeast(c, 150)
    THEN (IF MultAtLeast(c, 10) THEN "unsafe" ELSE "caution")
    ELSE IF GLAtMost(c, 150) /\ SugarAtMost(c, 200)
    THEN (IF MultAtLeast(c, 40) THEN "unsafe"
          ELSE IF MultAtLeast(c, 30) THEN "caution" ELSE "None")
    ELSE (IF MultAtLeast(c, 20) THEN "unsafe"
          ELSE IF MultAtLeast(c, 15) THEN "caution" ELSE "None")

(* C19: after Rule 1 the verdict is the one of the Rule 1 table, with one  *)
(* reason when the table sets a verdict and none when it sets nothing; a   *)
(* food without the avoid flag gets no verdict and no reason.              *)
C19_Rule1Table ==
    \A c \in 1..2 :
        pc[c] = "rule2" =>
            /\ risk_level[c] = Rule1Table(c)
            /\ Len(reasons[c]) = IF Rule1Table(c) = "None" THEN 0 ELSE 1

\* a flagged food in the moderate band at 3.0 to 4.0 servings: CAUTION
C19_Witness ==
    \E c \in 1..2 :
        /\ pc[c] = "rule2" /\ Flagged(c)
        /\ food_df[request[c].meal_taken].avoid_for_diabetic = "YES"
        /\ GLAtMost(c, 150) /\ SugarAtMost(c, 200) /\ ~GLAtMost(c, 80)
        /\ MultAtLeast(c, 30) /\ ~MultAtLeast(c, 40)
        /\ risk_level[c] = "caution"
        /\ reasons[c] = <<"avoid_large_portion">>

----------------------------------------------------------------------------
\* the conditions of rules 2 to 5 that give UNSAFE
TableUnsafe(c) ==
    \/ MultAtLeast(c, 50)
    \/ MultAtLeast(c, 30) /\ (GLAtLeast(c, 150) \/ SugarAtLeast(c, 200))
    \/ SugarAtLeast(c, 400)
    \/ GLAtLeast(c, 250)
    \/ CaloriesAtLeast(c, 8000)

\* the conditions of rules 2 to 5 that give CAUTION
TableCaution(c) ==
    \/ MultAtLeast(c, 30)
    \/ MultAtLeast(c, 20) /\ (GLAtLeast(c, 120) \/ SugarAtLeast(c, 150))
    \/ SugarAtLeast(c, 300)
    \/ GLAtLeast(c, 150)
    \/ CaloriesAtLeast(c, 7000)

(* C20: the verdict apply_hard_guardrails returns is UNSAFE whenever a     *)
(* condition of the UNSAFE column of rules 2 to 5 holds, at least CAUTION  *)
(* whenever one of the CAUTION column holds, and null for a food without   *)
(* the avoid flag when none holds.                                         *)
C20_ThresholdTable ==
    \A c \in 1..2 :
        GuardrailsDone(c) =>
            /\ TableUnsafe(c) => risk_level[c] = "unsafe"
            /\ TableCaution(c) => Sev(risk_level[c]) >= 2
            /\ (~Flagged(c) /\ ~TableUnsafe(c) /\ ~TableCaution(c)) => risk_level[c] = "None"

\* half a serving holding exactly 700 kcal, nothing else near a threshold:
\* CAUTION by the calorie rule alone
C20_Witness ==
    \E c \in 1..2 :
        /\ GuardrailsDone(c) /\ ~Flagged(c)
        /\ ~MultAtLeast(c, 20) /\ ~SugarAtLeast(c, 300) /\ ~GLAtLeast(c, 150)
        /\ CaloriesAtLeast(c, 7000) /\ ~CaloriesAtLeast(c, 7001)
        /\ risk_level[c] = "caution"
        /\ reasons[c] = <<"high_calorie_meal">>

----------------------------------------------------------------------------
\* the units of the /predict endpoint's conversion table
PredictTableUnits == {"cup", "bowl", "plate", "piece", "slice", "spoon", "glass", "g", "grams"}

\* the unit names get_appropriate_portion_size knows or the ServingUnit enum has
KnownPortionUnit(unit) ==
    \/ UnitIn(unit, DOMAIN ServingUnit)
    \/ UnitIn(unit, {"cups", "bowls", "katoris", "plates", "glasses", "pieces"})

(* C12: a quantity q in a unit that is not in the conversion table is      *)
(* converted to q x 100 g with an observable warning and no error, by the  *)
(* /predict endpoint and by get_appropriate_portion_size alike.            *)
C12_UnknownUnitFallback ==
    /\ \A c \in 1..2 :
          (Entered(c) /\ request[c].portion_unit \notin PredictTableUnits) =>
              /\ portion_size_g[c] = request[c].portion_size * 100
              /\ warnings[c] # {}
    /\ (~PortionPending /\ ~KnownPortionUnit(portion.requested_unit)) =>
          /\ portion.grams = portion.requested_amount * 100
          /\ portion.printed # {}

----------------------------------------------------------------------------
\* the unit is the value of a ServingUnit member that unit_conversions lists
TabledUnit(unit) ==
    /\ unit \in DOMAIN ServingUnit
    /\ ServingUnit[unit] \in DOMAIN unit_conversions

(* C13: for every unit with an entry in the unit-to-gram table,            *)
(* get_appropriate_portion_size returns quantity x that entry; no tabled   *)
(* unit is converted as if the quantity were grams already.                *)
C13_TabledUnitsConverted ==
    (~PortionPending /\ TabledUnit(portion.requested_unit)) =>
        portion.grams =
            portion.requested_amount * unit_conversions[ServingUnit[portion.requested_unit]]

----------------------------------------------------------------------------
(* C14: in /log-meal-firestore, when the prediction of every meal of the   *)
(* log was computed, the caller receives those predictions and no error,   *)
(* whether or not the writes to the log store succeeded.                   *)
C14_StoreFailureKeepsPrediction ==
    (/\ log_response.status # 0
     /\ firestore_db # "None"
     /\ Len(log_request.meals) > 0
     /\ Len(log_predictions) = Len(log_request.meals)) =>
        /\ log_response.status = 200
        /\ Len(log_response.results) = Len(log_predictions)
        /\ \A i \in 1..Len(log_predictions) :
              log_response.results[i].risk = log_predictions[i].response_risk_level

----------------------------------------------------------------------------
\* xa/den of call a is at most xb/den of call b, cross-multiplied with the
\* factor 100 of the denominators dropped
FeatureLeq(a, b, xa, xb) ==
    xa * (portion_features[b].den \div 100) <= xb * (portion_features[a].den \div 100)

\* multiplier, effective sugar, GL_portion and effective calories of call a
\* are each at most those of call b (the numerators that carry a factor 100
\* are compared without it)
NoLarger(a, b) ==
    /\ FeatureLeq(a, b, portion_features[a].portion_multiplier \div 100,
                        portion_features[b].portion_multiplier \div 100)
    /\ FeatureLeq(a, b, portion_features[a].sugar_effective_g \div 100,
                        portion_features[b].sugar_effective_g \div 100)
    /\ FeatureLeq(a, b, portion_features[a].GL_portion, portion_features[b].GL_portion)
    /\ FeatureLeq(a, b, portion_features[a].calories_effective_kcal \div 100,
                        portion_features[b].calories_effective_kcal \div 100)

(* C21: the verdict of apply_hard_guardrails is monotone in its inputs:    *)
(* of two evaluations on foods with the same avoid flag, the one whose     *)
(* multiplier, effective sugar, GL_portion and effective calories are each *)
(* no larger never gets the more severe verdict (null < CAUTION < UNSAFE). *)
C21_GuardrailsMonotone ==
    \A a, b \in 1..2 :
        (/\ GuardrailsDone(a) /\ GuardrailsDone(b)
         /\ Flagged(a) = Flagged(b)
         /\ NoLarger(a, b)) => Sev(risk_level[a]) <= Sev(risk_level[b])

\* two different dishes that carry the avoid flag, the first no larger than
\* the second in all four inputs and smaller in sugar and GL_portion, judged
\* in different bands of the avoid rule: CAUTION for the first, UNSAFE for
\* the second
C21_Witness ==
    \E a, b \in 1..2 :
        /\ GuardrailsDone(a) /\ GuardrailsDone(b)
        /\ request[a].meal_taken # request[b].meal_taken
        /\ Flagged(a) /\ Flagged(b)
        /\ NoLarger(a, b)
        /\ ~FeatureLeq(b, a, portion_features[b].GL_portion, portion_features[a].GL_portion)
        /\ ~FeatureLeq(b, a, portion_features[b].sugar_effective_g \div 100,
                             portion_features[a].sugar_effective_g \div 100)
        /\ risk_level[a] = "caution" /\ risk_level[b] = "unsafe"
        /\ Len(reasons[a]) > 0 /\ Len(reasons[b]) > 0
        /\ reasons[a][1] \in {"avoid_high_risk_small", "avoid_large_portion",
                              "avoid_elevated_portion"}
        /\ reasons[b][1] \in {"avoid_high_risk", "avoid_excessive_portion",
                              "avoid_moderate_large_portion"}

----------------------------------------------------------------------------
\* the categories in their priority order, and the keyword list of each
CategoryOrder ==
    <<"desserts", "vegetables", "lentils", "grains", "bread", "dairy", "fruits",
      "snacks", "beverages">>

KeywordsOf(category) ==
    CASE category = "desserts" -> dessert_keywords
      [] category = "vegetables" -> vegetable_keywords
      [] category = "lentils" -> lentil_keywords
      [] category = "grains" -> grain_keywords
      [] category = "bread" -> bread_keywords
      [] category = "dairy" -> dairy_keywords
      [] category = "fruits" -> fruit_keywords
      [] category = "snacks" -> snack_keywords
      [] category = "beverages" -> beverage_keywords

\* a keyword of the category occurs in the lowercased name, the vegetables
\* category being skipped for a name that contains 'rice'
CategoryMatches(food_name, category) ==
    /\ AnyKeyword(lower(food_name), KeywordsOf(category))
    /\ category = "vegetables" => ~Contains(lower(food_name), Chars("rice"))

(* C22: categorize_food returns the first category, in the order desserts, *)
(* vegetables, lentils, grains, bread, dairy, fruits, snacks, beverages,   *)
(* whose keyword list has a keyword occurring in the lowercased name, the  *)
(* vegetables category being skipped when the name contains 'rice'; it     *)
(* returns 'vegetables' when no list matches.                              *)
C22_FirstMatchingCategory ==
    ~PortionPending =>
        LET hits == {i \in 1..Len(CategoryOrder) :
                        CategoryMatches(portion.food_name, CategoryOrder[i])} IN
        IF hits = {} THEN portion.category = "vegetables"
        ELSE \E i \in hits : /\ \A j \in hits : i <= j
                             /\ portion.category = CategoryOrder[i]

\* the call returned for a dish named after a vegetable and rice: the
\* vegetables list matches, the carve-out skips it and the grains list wins
C22_Witness ==
    /\ ~PortionPending
    /\ AnyKeyword(lower(portion.food_name), vegetable_keywords)
    /\ Contains(lower(portion.food_name), Chars("rice"))
    /\ portion.category = "grains"

----------------------------------------------------------------------------
\* the requested food is in the dataset with a serving_size_g of 0
ZeroServing(c) ==
    /\ pc[c] # "idle"
    /\ request[c].meal_taken \in DOMAIN food_df
    /\ food_df[request[c].meal_taken].serving_size_g = 0

(* C24: compute_portion_features treats a serving_size_g of zero as 100 g: *)
(* it returns portion_multiplier = portion_size_g / 100 and the nutrients  *)
(* scaled by it, and never fails with a division by zero.                  *)
C24_ZeroServingIsHundred ==
    \A c \in 1..2 :
        ZeroServing(c) =>
            /\ result[c].status # 500
            /\ portion_features[c] =
                  compute_portion_features(
                      [food_df[request[c].meal_taken] EXCEPT !.serving_size_g = 100],
                      portion_size_g[c])

----------------------------------------------------------------------------
\* the final-verdict statement that names the verdict r
FinalStatement(r) ==
    CASE r = "safe" -> "marked SAFE"
      [] r = "caution" -> "marked CAUTION"
      [] r = "unsafe" -> "marked UNSAFE"
      [] OTHER -> ""

(* C25: the explanation returned by predict_meal_safety lists every        *)
(* guardrail reason in the order the rules produced them, contains the     *)
(* classifier note only when the reasons list is empty and a classifier    *)
(* prediction exists, and ends with a final-verdict statement that names   *)
(* the verdict of the result's risk_level.                                 *)
C25_ExplanationTellsTheVerdict ==
    \A c \in 1..2 :
        Returned(c) =>
            LET e == result[c].explanation IN
            /\ result[c].reasons = reasons[c]
            /\ \E k \in 0..(Len(e) - Len(reasons[c])) :
                  \A i \in 1..Len(reasons[c]) : e[k + i] = reasons[c][i]
            /\ HasModelNote(c) =>
                  (reasons[c] = <<>> /\ result[c].model_prediction # "None")
            /\ Len(e) > 0
            /\ e[Len(e)] = FinalStatement(result[c].risk_level)

\* a call whose guardrails gave two reasons and CAUTION, which the classifier
\* overrode: the explanation lists both reasons, has no classifier note and
\* ends with 'marked SAFE'
C25_Witness ==
    \E c \in 1..2 :
        /\ Returned(c)
        /\ Len(reasons[c]) >= 2
        /\ result[c].model_prediction = "safe"
        /\ ~HasModelNote(c)
        /\ result[c].risk_level = "safe"
        /\ result[c].explanation[Len(result[c].explanation)] = "marked SAFE"

----------------------------------------------------------------------------
(* C29: in every result of predict_meal_safety the final verdict is UNSAFE *)
(* if and only if apply_hard_guardrails returned UNSAFE, and it is SAFE    *)
(* only if the classifier was invoked and predicted SAFE;                  *)
(* apply_hard_guardrails never returns SAFE and the classifier never       *)
(* produces UNSAFE.                                                        *)
C29_VerdictSources ==
    \A c \in 1..2 :
        /\ risk_level[c] # "safe"
        /\ model_prediction[c] # "unsafe"
        /\ Returned(c) =>
              /\ result[c].risk_level = "unsafe" <=> risk_level[c] = "unsafe"
              /\ result[c].risk_level = "safe" =>
                    (model_calls[c] > 0 /\ model_prediction[c] = "safe")

\* a call returned CAUTION with no guardrail reason and no classifier loaded:
\* nothing fired and nothing predicted, and the verdict is not SAFE
C29_Witness ==
    \E c \in 1..2 :
        /\ Returned(c)
        /\ risk_level[c] = "None" /\ model = "None" /\ model_calls[c] = 0
        /\ result[c].risk_level = "caution"

----------------------------------------------------------------------------
(* The five rules evaluated on their own and in other orders *)

RuleNames == {"rule1", "rule2", "rule3", "rule4", "rule5"}

\* the orders in which the five rules can be evaluated
RuleOrders == {o \in [1..5 -> RuleNames] : \A i, j \in 1..5 : i # j => o[i] # o[j]}

\* the verdict of call c's rule p evaluated on its own, from a null verdict
OwnOutcome(c, p) ==
    RuleAt(p, food_df[request[c].meal_taken], portion_features[c],
           Verdict("None", <<>>)).risk_level

\* the verdict of call c's rules evaluated in the order o
InOrder(c, o) ==
    LET row == food_df[request[c].meal_taken]
        f == portion_features[c]
    IN RuleAt(o[5], row, f, RuleAt(o[4], row, f, RuleAt(o[3], row, f,
           RuleAt(o[2], row, f, RuleAt(o[1], row, f,
               Verdict("None", <<>>)))))).risk_level

\* the verdict is the most severe of the rules' own outcomes
MostSevereOwnOutcome(c) ==
    /\ \A p \in RuleNames : Sev(OwnOutcome(c, p)) <= Sev(risk_level[c])
    /\ risk_level[c] # "None" => \E p \in RuleNames : OwnOutcome(c, p) = risk_level[c]

(* C30: the verdict returned by apply_hard_guardrails equals the most      *)
(* severe of the outcomes the five rules give when each is evaluated on    *)
(* its own, so evaluating the five rules in any other order yields the     *)
(* same verdict.                                                           *)
C30_AnyOrder ==
    \A c \in 1..2 :
        pc[c] = "model" =>
            /\ MostSevereOwnOutcome(c)
            /\ \A o \in RuleOrders : InOrder(c, o) = risk_level[c]

(* C30 as the code has it: the verdict equals the most severe of the       *)
(* rules' own outcomes, and evaluating Rules 2 to 5 in any order after     *)
(* Rule 1 yields the same verdict.                                         *)
C30_AnyOrderAfterRule1 ==
    \A c \in 1..2 :
        pc[c] = "model" =>
            /\ MostSevereOwnOutcome(c)
            /\ \A o \in RuleOrders : o[1] = "rule1" => InOrder(c, o) = risk_level[c]

\* apply_hard_guardrails returned UNSAFE for a portion on which Rule 1 on its
\* own gives CAUTION and Rule 2 on its own gives UNSAFE: evaluated after
\* Rule 2, Rule 1 would leave CAUTION
C30_Witness ==
    \E c \in 1..2 :
        /\ pc[c] = "model"
        /\ OwnOutcome(c, "rule1") = "caution"
        /\ OwnOutcome(c, "rule2") = "unsafe"
        /\ risk_level[c] = "unsafe"
        /\ \E o \in RuleOrders : InOrder(c, o) = "caution"

----------------------------------------------------------------------------
\* the rows of the two foods differ in the stored glycemic_load and in
\* nothing else
OnlyStoredLoadDiffers(food_row, other) ==
    /\ food_row.glycemic_load # other.glycemic_load
    /\ [food_row EXCEPT !.glycemic_load = 0] = [other EXCEPT !.glycemic_load = 0]

\* calls a and b ask for the same portion, for the same user, of two foods
\* that differ in the stored glycemic_load only
TwinCalls(a, b) ==
    /\ Entered(a) /\ Entered(b)
    /\ request[a].portion_size = request[b].portion_size
    /\ request[a].portion_unit = request[b].portion_unit
    /\ request[a].user = request[b].user
    /\ OnlyStoredLoadDiffers(food_df[request[a].meal_taken], food_df[request[b].meal_taken])

(* C27: two food records that differ only in the stored glycemic_load      *)
(* produce, for every portion and user, the same guardrail verdict, the    *)
(* same reasons, the same classifier feature vector and the same final     *)
(* verdict.                                                                *)
C27_StoredLoadIgnored ==
    \A a, b \in 1..2 :
        TwinCalls(a, b) =>
            /\ prepare_features_for_model(portion_features[a], user_data(request[a].user))
                  = prepare_features_for_model(portion_features[b],
                                               user_data(request[b].user))
            /\ (GuardrailsDone(a) /\ GuardrailsDone(b)) =>
                  (risk_level[a] = risk_level[b] /\ reasons[a] = reasons[b])
            /\ (Returned(a) /\ Returned(b)) =>
                  /\ result[a].risk_level = result[b].risk_level
                  /\ result[a].confidence = result[b].confidence

\* the dish and its twin, whose stored load of 40 is above the UNSAFE
\* threshold of the glycemic-load rule, both returned with no guardrail
\* reason for a portion whose recomputed GL_portion is below 15
C27_Witness ==
    \E a, b \in 1..2 :
        /\ TwinCalls(a, b)
        /\ Returned(a) /\ Returned(b)
        /\ portion_features[a].glycemic_load < 25
        /\ portion_features[b].glycemic_load >= 25
        /\ ~GLAtLeast(b, 150)
        /\ reasons[b] = <<>>
        /\ result[a] = result[b]

----------------------------------------------------------------------------
(* The category-aware guardrail, on its last call *)

\* the dish the guardrail was called on
EnhancedName == request[1].meal_taken

\* the category whose guideline judged the dish, read from the first reason
JudgedAs ==
    IF enhanced.reasons = <<>> THEN "None"
    ELSE CASE enhanced.reasons[1] \in {"very_large_vegetable_portion", "healthy_vegetable",
                 "vegetable_moderate_gl_sugar", "vegetable_high_gl_sugar"} -> "vegetables"
           [] enhanced.reasons[1] \in {"large_lentil_portion", "healthy_lentil",
                 "lentil_moderate_gl", "lentil_high_gl"} -> "lentils"
           [] enhanced.reasons[1] \in {"dessert_high_sugar", "dessert_moderate_sugar",
                 "dessert_low_sugar"} -> "desserts"
           [] enhanced.reasons[1] \in {"grain_reasonable", "grain_moderate",
                 "grain_high_gl"} -> "grains"
           [] enhanced.reasons[1] \in {"bread_reasonable", "bread_moderate",
                 "bread_high_gl"} -> "bread"
           [] OTHER -> "None"

(* C23: get_enhanced_medical_guardrails judges every dish under the        *)
(* category that categorize_food assigns to its name; a dish whose name    *)
(* contains 'rice' is never judged by the vegetable rule.                  *)
C23_SameCategory ==
    enhanced.called =>
        /\ JudgedAs = categorize_food(EnhancedName)
        /\ Contains(lower(EnhancedName), Chars("rice")) => JudgedAs # "vegetables"

(* C26: for a dish whose name contains a dessert keyword the guardrail     *)
(* never returns SAFE and never returns null: UNSAFE when the food's       *)
(* sugar_g is at least 10 or the effective sugar at least 6 g, otherwise   *)
(* CAUTION or (through the extreme checks) UNSAFE, also when the name      *)
(* contains a vegetable or lentil keyword as well.                         *)
C26_DessertNeverSafe ==
    (enhanced.called /\ is_dessert(lower(EnhancedName))) =>
        /\ enhanced.risk_level \in {"caution", "unsafe"}
        /\ (\/ food_df[EnhancedName].sugar_g >= 10
            \/ SugarAtLeast(1, 60)) => enhanced.risk_level = "unsafe"
        /\ (enhanced.risk_level = "unsafe"
              /\ food_df[EnhancedName].sugar_g < 10 /\ ~SugarAtLeast(1, 60))
             => (SugarAtLeast(1, 300) \/ GLAtLeast(1, 400) \/ MultAtLeast(1, 60))

\* a dessert named after a vegetable, with no sugar and a GL_portion and
\* portion the vegetable guideline calls healthy, judged CAUTION
C26_Witness ==
    /\ enhanced.called
    /\ is_dessert(lower(EnhancedName)) /\ is_vegetable(lower(EnhancedName))
    /\ SugarAtMost(1, 0) /\ GLAtMost(1, 150) /\ ~MultAtLeast(1, 40)
    /\ enhanced.risk_level = "caution"

(* C28: apply_hard_guardrails and get_enhanced_medical_guardrails return a *)
(* null verdict if and only if the reasons list they return is empty, and  *)
(* in the result of predict_meal_safety guardrail_triggered is true        *)
(* exactly when reasons is non-empty.                                      *)
C28_NullVerdictIffNoReasons ==
    /\ \A c \in 1..2 :
          /\ GuardrailsDone(c) => (risk_level[c] = "None" <=> reasons[c] = <<>>)
          /\ Returned(c) => (result[c].guardrail_triggered <=> result[c].reasons # <<>>)
    /\ enhanced.called => (enhanced.risk_level = "None" <=> enhanced.reasons = <<>>)

\* the call returned with a guardrail triggered by the portion alone, for a
\* dish on which the category-aware guardrail applied no rule and returned
\* a null verdict
C28_Witness ==
    /\ Returned(1) /\ result[1].guardrail_triggered /\ result[1].reasons # <<>>
    /\ enhanced.called /\ enhanced.risk_level = "None" /\ enhanced.reasons = <<>>

====
